---------------------------- MODULE Spec2Model ----------------------------
(***************************************************************************)
(* A model of nion.ui.DrawingContext (src/nion/ui/DrawingContext.py): the  *)
(* command buffer, its gradient and image handle counters, the saver()     *)
(* scope and the layer delegation.                                         *)
(*                                                                         *)
(* Python lists are objects: self.commands holds a reference.  The model   *)
(* keeps the list objects in `lists` and each buffer's reference in        *)
(* `commands`, so that two buffers holding the same list are visible.      *)
(*                                                                         *)
(* to_js and to_svg are pure operators over a command sequence.  A call of *)
(* to_svg records in `replay` its locals after every command, and every    *)
(* call of either interpreter adds what it gave its caller to `results`.   *)
(* Text that the interpreters build by format() is kept as tuples of its   *)
(* parts; strings that the code takes apart are sequences of characters.   *)
(*                                                                         *)
(* `grid` is a GridCanvasItem (src/nion/ui/GridCanvasItem.py) with its     *)
(* delegate; it paints itself into the first drawing context.  Its         *)
(* collaborators (selection, delegate, root container, base class) are     *)
(* seen through the calls that a handler makes to them.                    *)
(***************************************************************************)
EXTENDS Integers, Sequences, FiniteSets, TLC

\* ------------------------------------------------------------------ bounds
MaxCommands == 3
MaxFillCommands == 5
MaxScopes == 1
MaxGradients == 2
MaxStops == 1
MaxConstructions == 3
MaxDraws == 4
MaxCalls == 2

\* Two drawing contexts, the list objects they can hold, and two threads.
Buffers == {1, 2}
Refs == {1, 2}
Threads == {1, 2}

None == "None"

VARIABLES
    commands,           \* [Buffers -> Refs]: the list object self.commands names
    lists,              \* [Refs -> Seq(command)]: the list objects
    save_count,         \* [Buffers -> Int]: self.save_count
    storage,            \* [Buffers -> {None, "storage"}]: self.__storage
    storage_calls,      \* the calls the storage collaborator has received
    gradients,          \* the LinearGradient objects constructed so far
    LinearGradient_next,\* DrawingContext.LinearGradient.next
    image_id,           \* DrawingContext.__image_id
    image_id_lock,      \* DrawingContext.__image_id_lock: 0 or the owning thread
    lock_entries,       \* history: the image ids in order of entry into the lock
    pc,                 \* [Threads -> program point]
    local,              \* [Threads -> the thread's local variables]
    capacity,           \* the model's memory bound, fixed by the initial state
    scopes,             \* the open saver() scopes, innermost last
    raising,            \* an exception is propagating through the open scopes
    last,               \* history: the call that made the last step, its outcome
                        \* (and, for clear, in arg the save depth it found)
    replay,             \* the to_svg call in progress: its position and locals
    results,            \* what the completed to_js and to_svg calls returned
    grid                \* the GridCanvasItem: its fields, its delegate and the
                        \* calls its last handler made to its collaborators

vars == <<commands, lists, save_count, storage, storage_calls, gradients,
          LinearGradient_next, image_id, image_id_lock, lock_entries, pc,
          local, capacity, scopes, raising, last, replay, results, grid>>

bufferVars == <<commands, lists, save_count>>
gradientVars == <<gradients, LinearGradient_next>>
imageVars == <<image_id, image_id_lock, lock_entries>>
threadVars == <<pc, local, capacity, grid>>
layerVars == <<storage, storage_calls>>
scopeVars == <<scopes, raising>>
replayVars == <<replay, results>>

\* ----------------------------------------------------------------- helpers
\* The command sequence of buffer b: the content of the list it references.
Commands(b) == lists[commands[b]]

\* float(x) of the small integers the model passes: the same number.
float(x) == x

\* A list object for a new `[]`: one that no other buffer references.
NewList(b) ==
    IF \A o \in Buffers \ {b} : commands[o] # commands[b]
    THEN commands[b]
    ELSE CHOOSE r \in Refs : \A o \in Buffers : commands[o] # r

CommandsNext(b) == lists'[commands'[b]]

\* A plausible slip: the new commands are put in front of the old ones.
ListExtend_in_front(r, cmds) == [lists EXCEPT ![r] = cmds \o @]

\* list.append(cmd) / list.extend(cmds) on the list object r.
ListExtend(r, cmds) == [lists EXCEPT ![r] = @ \o cmds]

\* The model's memory bound: the commands held by all list objects, with one
\* place kept for the restore of every open saver() scope.
RECURSIVE TotalLen(_)
TotalLen(rs) ==
    IF rs = {} THEN 0
    ELSE LET r == CHOOSE x \in rs : TRUE IN Len(lists[r]) + TotalLen(rs \ {r})

Room(n) == TotalLen(Refs) + Len(scopes) + n <= capacity

\* Python's None where the other values are numbers or sequences.
Nothing == <<>>

\* The locals of to_svg as its loop starts.
SvgLocals ==
    [svg |-> <<>>, defs |-> <<>>, path |-> <<>>, next_clip_id |-> 1,
     transform |-> <<>>, closers |-> <<>>,
     fill_style |-> None, stroke_style |-> None,
     line_cap |-> "square", line_join |-> "bevel",
     line_width |-> 1, line_dash |-> Nothing,
     text_anchor |-> "start", text_baseline |-> "alphabetic",
     font_style |-> None, font_weight |-> None,
     font_size |-> Nothing, font_family |-> Nothing,
     contexts |-> <<>>,
     gradient_start |-> Nothing, gradient_stops |-> <<>>,
     error |-> None]

NoReplay == [status |-> "idle", self |-> 0, i |-> 0, size |-> Nothing,
             viewbox |-> Nothing, st |-> SvgLocals, trace |-> <<>>]

\* A GridCanvasItem after __init__, with a delegate of no items that has no
\* on_drag_started, laid out on a canvas two items wide.  `calls` and `drags`
\* are history: the calls made by the last handler, and the drags started
\* since the last call of mouse_pressed.
GridLocals ==
    [delegate |-> TRUE, item_count |-> 0, on_drag_started |-> FALSE,
     canvas_width |-> 160,
     mouse_pressed |-> FALSE, mouse_index |-> Nothing,
     mouse_position |-> Nothing, mouse_dragging |-> FALSE,
     calls |-> <<>>, drags |-> 0]

Call(op, self, arg, result) ==
    [op |-> op, self |-> self, arg |-> arg, result |-> result]

\* An exception raised inside open saver() scopes propagates through them.
Propagates == scopes # <<>>

\* ------------------------------------------------------------ construction
InitBuffers ==
    /\ commands = [b \in Buffers |-> b]
    /\ lists = [r \in Refs |-> <<>>]
    /\ save_count = [b \in Buffers |-> 0]

InitRest ==
    /\ storage_calls = <<>>
    /\ gradients = <<>>
    /\ LinearGradient_next = 1
    /\ image_id = 0
    /\ image_id_lock = 0
    /\ lock_entries = <<>>
    /\ pc = [t \in Threads |-> "idle"]
    /\ local = [t \in Threads |-> [self |-> 0, tmp |-> 0, image_id |-> 0, img |-> None]]
    /\ scopes = <<>>
    /\ raising = FALSE
    /\ last = Call("init", 0, 0, "ok")
    /\ replay = NoReplay
    /\ results = <<>>
    /\ grid = GridLocals

Init ==
    /\ InitBuffers
    /\ capacity = MaxCommands
    /\ storage = [b \in Buffers |-> None]
    /\ InitRest

\* -------------------------------------------------------- buffer operations
\* A plausible slip: only this buffer's save depth is asserted.
copy_from_asserts_self_only(self, other) ==
    save_count[self] = 0

\* The two assert statements of copy_from.
copy_from_asserts(self, other) ==
    /\ save_count[self] = 0
    /\ save_count[other] = 0

copy_from(self, other) ==
    /\ ~raising
    /\ IF ~copy_from_asserts(self, other)
       THEN /\ UNCHANGED bufferVars
            /\ raising' = Propagates
            /\ last' = Call("copy_from", self, other, "AssertionError")
       ELSE /\ commands' = [commands EXCEPT ![self] = commands[other]]
            /\ lists' = [r \in Refs |->
                           IF \E b \in Buffers : commands'[b] = r
                           THEN lists[r] ELSE <<>>]
            /\ UNCHANGED <<save_count, raising>>
            /\ last' = Call("copy_from", self, other, "ok")
    /\ UNCHANGED <<gradientVars, imageVars, threadVars, replayVars, layerVars, scopes>>

add(self, other) ==
    /\ ~raising
    /\ Room(Len(Commands(other)))
    /\ lists' = ListExtend(commands[self], Commands(other))
    /\ last' = Call("add", self, other, "ok")
    /\ UNCHANGED <<commands, save_count, gradientVars, imageVars, threadVars, replayVars,
                   layerVars, scopeVars>>

\* A plausible slip: the list is replaced and the save depth is kept.
clear_keeps_save_count(self) ==
    /\ ~raising
    /\ LET r == NewList(self) IN
         /\ commands' = [commands EXCEPT ![self] = r]
         /\ lists' = [lists EXCEPT ![r] = <<>>]
    /\ last' = Call("clear", self, save_count[self], "ok")
    /\ UNCHANGED <<save_count, gradientVars, imageVars, threadVars, replayVars, layerVars,
                   scopeVars>>

clear(self) ==
    /\ ~raising
    /\ LET r == NewList(self) IN
         /\ commands' = [commands EXCEPT ![self] = r]
         /\ lists' = [lists EXCEPT ![r] = <<>>]
    /\ save_count' = [save_count EXCEPT ![self] = 0]
    /\ last' = Call("clear", self, save_count[self], "ok")
    /\ UNCHANGED <<gradientVars, imageVars, threadVars, replayVars, layerVars, scopeVars>>

\* The state change of save() and restore(), shared with saver().
save_effect(self) ==
    /\ lists' = ListExtend(commands[self], << <<"save">> >>)
    /\ save_count' = [save_count EXCEPT ![self] = @ + 1]
    /\ UNCHANGED commands

restore_effect(self) ==
    /\ lists' = ListExtend(commands[self], << <<"restore">> >>)
    /\ save_count' = [save_count EXCEPT ![self] = @ - 1]
    /\ UNCHANGED commands

save(self) ==
    /\ ~raising
    /\ Room(1)
    /\ save_effect(self)
    /\ last' = Call("save", self, 0, "ok")
    /\ UNCHANGED <<gradientVars, imageVars, threadVars, replayVars, layerVars, scopeVars>>

restore(self) ==
    /\ ~raising
    /\ Room(1)
    /\ restore_effect(self)
    /\ last' = Call("restore", self, 0, "ok")
    /\ UNCHANGED <<gradientVars, imageVars, threadVars, replayVars, layerVars, scopeVars>>

fill(self) ==
    /\ ~raising
    /\ Room(1)
    /\ lists' = ListExtend(commands[self], << <<"fill">> >>)
    /\ last' = Call("fill", self, 0, "ok")
    /\ UNCHANGED <<commands, save_count, gradientVars, imageVars, threadVars, replayVars,
                   layerVars, scopeVars>>

\* ------------------------------------------------------- gradients and fill
GradientArgs == { <<100, 100, 0, 0, 0, 100>> }
Offsets == {1}
Colors == {"#FFF"}

\* The argument of the fill_style setter: a LinearGradient object (by its
\* place in `gradients`) or any other value, which str() turns into a string.
GradientValue(g) == [kind |-> "LinearGradient", g |-> g, color |-> ""]
ColorValue(c) == [kind |-> "str", g |-> 0, color |-> c]
FillStyleValues ==
    {GradientValue(g) : g \in 1..Len(gradients)} \cup {ColorValue(c) : c \in Colors}

\* LinearGradient.__init__ run by one thread without interruption, as called
\* by create_linear_gradient.
create_linear_gradient(args) ==
    /\ ~raising
    /\ Len(gradients) < MaxGradients
    /\ LET command_var == LinearGradient_next IN
         gradients' = Append(gradients,
            [command_var |-> command_var,
             commands |-> << <<"gradient", command_var, float(args[1]),
                              float(args[2]), float(args[3]), float(args[4]),
                              float(args[5]), float(args[6])>> >>])
    /\ LinearGradient_next' = LinearGradient_next + 1
    /\ last' = Call("create_linear_gradient", 0, Len(gradients) + 1, "ok")
    /\ UNCHANGED <<bufferVars, imageVars, threadVars, replayVars, layerVars, scopeVars>>

add_color_stop(g, x, color) ==
    /\ ~raising
    /\ Len(gradients[g].commands) < 1 + MaxStops
    /\ gradients' = [gradients EXCEPT ![g].commands =
            Append(@, <<"colorStop", gradients[g].command_var, float(x), color>>)]
    /\ last' = Call("add_color_stop", 0, g, "ok")
    /\ UNCHANGED <<bufferVars, LinearGradient_next, imageVars, threadVars, replayVars,
                   layerVars, scopeVars>>

\* A plausible slip: the gradient's own commands are not copied into the buffer.
fill_style_commands_handle_only(a) ==
    IF a.kind = "LinearGradient"
    THEN << <<"fillStyleGradient", gradients[a.g].command_var>> >>
    ELSE << <<"fillStyle", a.color>> >>

\* What the fill_style setter appends to self.commands.
fill_style_commands(a) ==
    IF a.kind = "LinearGradient"
    THEN gradients[a.g].commands
         \o << <<"fillStyleGradient", gradients[a.g].command_var>> >>
    ELSE << <<"fillStyle", a.color>> >>

fill_style(self, a) ==
    /\ ~raising
    /\ Room(Len(fill_style_commands(a)))
    /\ lists' = ListExtend(commands[self], fill_style_commands(a))
    /\ last' = Call("fill_style", self, a.g, "ok")
    /\ UNCHANGED <<commands, save_count, gradientVars, imageVars, threadVars, replayVars,
                   layerVars, scopeVars>>

\* saver(): a context manager.  Entering it runs save(); leaving it, normally
\* or by an exception (the finally clause), runs restore().
saver_enter(self) ==
    /\ ~raising
    /\ Len(scopes) < MaxScopes
    /\ Room(2)
    /\ save_effect(self)
    /\ scopes' = Append(scopes, [self |-> self, entry_depth |-> save_count[self]])
    /\ last' = Call("saver_enter", self, 0, "ok")
    /\ UNCHANGED <<gradientVars, imageVars, threadVars, replayVars, layerVars, raising>>

\* The block inside the innermost open scope exits by an error.
block_raises ==
    /\ ~raising
    /\ scopes # <<>>
    /\ raising' = TRUE
    /\ last' = Call("raise", scopes[Len(scopes)].self, 0, "Exception")
    /\ UNCHANGED <<bufferVars, gradientVars, imageVars, threadVars, replayVars, layerVars,
                   scopes>>

\* A plausible slip: restore() after the yield without try/finally, so that an
\* exception leaves the scope without the restore.
saver_exit_without_finally ==
    /\ scopes # <<>>
    /\ LET sc == scopes[Len(scopes)] IN
         /\ IF raising THEN UNCHANGED bufferVars ELSE restore_effect(sc.self)
         /\ last' = Call("saver_exit", sc.self, 0,
                         IF raising THEN "error" ELSE "normal")
    /\ scopes' = SubSeq(scopes, 1, Len(scopes) - 1)
    /\ \E caught \in BOOLEAN :
         raising' = (raising /\ ~caught /\ scopes' # <<>>)
    /\ UNCHANGED <<gradientVars, imageVars, threadVars, replayVars, layerVars>>

\* The innermost scope is left.  An exception that is propagating goes on to
\* the enclosing scope unless the caller's code between the two catches it.
saver_exit ==
    /\ scopes # <<>>
    /\ LET sc == scopes[Len(scopes)] IN
         /\ restore_effect(sc.self)
         /\ last' = Call("saver_exit", sc.self, 0,
                         IF raising THEN "error" ELSE "normal")
    /\ scopes' = SubSeq(scopes, 1, Len(scopes) - 1)
    /\ \E caught \in BOOLEAN :
         raising' = (raising /\ ~caught /\ scopes' # <<>>)
    /\ UNCHANGED <<gradientVars, imageVars, threadVars, replayVars, layerVars>>

Next ==
    \/ \E self, other \in Buffers : copy_from(self, other)
    \/ \E self, other \in Buffers : add(self, other)
    \/ \E self \in Buffers : clear(self)
    \/ \E self \in Buffers : save(self)
    \/ \E self \in Buffers : restore(self)
    \/ \E self \in Buffers : fill(self)
    \/ \E self \in Buffers : saver_enter(self)
    \/ block_raises
    \/ saver_exit

Spec == Init /\ [][Next]_vars

\* Buffers filled through the fill_style setter and gradients.
InitFill ==
    /\ InitBuffers
    /\ capacity = MaxFillCommands
    /\ storage = [b \in Buffers |-> None]
    /\ InitRest

NextFill ==
    \/ \E args \in GradientArgs : create_linear_gradient(args)
    \/ \E g \in 1..Len(gradients), x \in Offsets, color \in Colors :
          add_color_stop(g, x, color)
    \/ \E self \in Buffers, a \in FillStyleValues : fill_style(self, a)
    \/ \E self, other \in Buffers : copy_from(self, other)
    \/ \E self, other \in Buffers : add(self, other)
    \/ \E self \in Buffers : clear(self)

SpecFill == InitFill /\ [][NextFill]_vars

\* ------------------------------------------------------------------ layers
\* The layer ids a caller passes: None, the empty string, a layer's id.
LayerIds == {None, "", "layer-1"}

\* Python's truth value of a layer id: None and "" are false.
Truthy(layer_id) == layer_id # None /\ layer_id # ""

\* self.__storage.<method>(self, layer_id): the storage collaborator is not
\* part of this module; the model records the calls it receives.  With no
\* storage configured the attribute lookup on None raises AttributeError.
storage_call(method, self, layer_id) ==
    IF storage[self] = None
    THEN /\ UNCHANGED storage_calls
         /\ raising' = Propagates
         /\ last' = Call(method, self, layer_id, "AttributeError")
    ELSE /\ storage_calls' = Append(storage_calls,
                [method |-> method, buffer |-> self, layer_id |-> layer_id])
         /\ UNCHANGED raising
         /\ last' = Call(method, self, layer_id, "ok")

no_call(method, self, layer_id) ==
    /\ UNCHANGED <<storage_calls, raising>>
    /\ last' = Call(method, self, layer_id, "ok")

create_layer(self) ==
    /\ ~raising
    /\ last' = Call("create_layer", self, None,
                    IF storage[self] # None THEN "uuid4" ELSE None)
    /\ UNCHANGED <<bufferVars, gradientVars, imageVars, threadVars, replayVars, layerVars,
                   scopeVars>>

begin_layer(self, layer_id) ==
    /\ ~raising
    /\ Len(storage_calls) < MaxCalls
    /\ IF Truthy(layer_id)
       THEN storage_call("begin_layer", self, layer_id)
       ELSE no_call("begin_layer", self, layer_id)
    /\ UNCHANGED <<bufferVars, gradientVars, imageVars, threadVars, replayVars, storage,
                   scopes>>

end_layer(self, layer_id) ==
    /\ ~raising
    /\ Len(storage_calls) < MaxCalls
    /\ IF Truthy(layer_id)
       THEN storage_call("end_layer", self, layer_id)
       ELSE no_call("end_layer", self, layer_id)
    /\ UNCHANGED <<bufferVars, gradientVars, imageVars, threadVars, replayVars, storage,
                   scopes>>

draw_layer(self, layer_id) ==
    /\ ~raising
    /\ Len(storage_calls) < MaxCalls
    /\ storage_call("draw_layer", self, layer_id)
    /\ UNCHANGED <<bufferVars, gradientVars, imageVars, threadVars, replayVars, storage,
                   scopes>>

\* Contexts constructed with and without a storage collaborator.
InitLayer ==
    /\ InitBuffers
    /\ capacity = MaxCommands
    /\ storage \in [Buffers -> {None, "storage"}]
    /\ InitRest

NextLayer ==
    \/ \E self \in Buffers : create_layer(self)
    \/ \E self \in Buffers, layer_id \in LayerIds : begin_layer(self, layer_id)
    \/ \E self \in Buffers, layer_id \in LayerIds : end_layer(self, layer_id)
    \/ \E self \in Buffers, layer_id \in LayerIds : draw_layer(self, layer_id)

SpecLayer == InitLayer /\ [][NextLayer]_vars

\* ------------------------------------------- gradient construction by threads
\* LinearGradient.__init__ statement by statement, run by thread t; the
\* threads interleave between statements, and `next += 1` is a read followed
\* by a write.
notGradientThreads ==
    <<bufferVars, imageVars, capacity, layerVars, scopeVars, last, replayVars,
      grid>>

LinearGradient_init_522(t, args) ==
    /\ pc[t] = "idle"
    /\ Len(gradients) < MaxConstructions
    /\ gradients' = Append(gradients,
            [command_var |-> 0, commands |-> <<>>, args |-> args])
    /\ local' = [local EXCEPT ![t].self = Len(gradients) + 1]
    /\ pc' = [pc EXCEPT ![t] = "init_523"]
    /\ UNCHANGED <<notGradientThreads, LinearGradient_next>>

LinearGradient_init_523(t) ==
    /\ pc[t] = "init_523"
    /\ gradients' = [gradients EXCEPT ![local[t].self].command_var =
                                          LinearGradient_next]
    /\ pc' = [pc EXCEPT ![t] = "init_524"]
    /\ UNCHANGED <<notGradientThreads, LinearGradient_next, local>>

LinearGradient_init_524(t) ==
    /\ pc[t] = "init_524"
    /\ LET self == gradients[local[t].self] IN
         gradients' = [gradients EXCEPT ![local[t].self].commands =
            Append(@, <<"gradient", self.command_var, float(self.args[1]),
                        float(self.args[2]), float(self.args[3]),
                        float(self.args[4]), float(self.args[5]),
                        float(self.args[6])>>)]
    /\ pc' = [pc EXCEPT ![t] = "init_526_load"]
    /\ UNCHANGED <<notGradientThreads, LinearGradient_next, local>>

LinearGradient_init_526_load(t) ==
    /\ pc[t] = "init_526_load"
    /\ local' = [local EXCEPT ![t].tmp = LinearGradient_next]
    /\ pc' = [pc EXCEPT ![t] = "init_526_store"]
    /\ UNCHANGED <<notGradientThreads, gradients, LinearGradient_next>>

LinearGradient_init_526_store(t) ==
    /\ pc[t] = "init_526_store"
    /\ LinearGradient_next' = local[t].tmp + 1
    /\ pc' = [pc EXCEPT ![t] = "idle"]
    /\ UNCHANGED <<notGradientThreads, gradients, local>>

NextGradientThreads ==
    \/ \E t \in Threads, args \in GradientArgs : LinearGradient_init_522(t, args)
    \/ \E t \in Threads : LinearGradient_init_523(t)
    \/ \E t \in Threads : LinearGradient_init_524(t)
    \/ \E t \in Threads : LinearGradient_init_526_load(t)
    \/ \E t \in Threads : LinearGradient_init_526_store(t)

SpecGradientThreads == Init /\ [][NextGradientThreads]_vars

\* ------------------------------------------------------ draw_image by threads
Images == {[dtype |-> "uint32", shape |-> <<1, 2>>],
           [dtype |-> "float64", shape |-> <<1, 2>>]}
ImageRects == { <<0, 0, 2, 1>> }

\* A plausible slip: the counter is used without taking the lock.
image_id_lock_ignored(t) == TRUE

\* `with DrawingContext.__image_id_lock`: an RLock can be taken when no thread
\* holds it or the taking thread does.
image_id_lock_free(t) == image_id_lock \in {0, t}

notImageThreads ==
    <<gradientVars, capacity, layerVars, scopeVars, replayVars, grid>>

\* Thread t calls draw_image on its own buffer, the buffer t.
draw_image_398(t, img) ==
    /\ pc[t] = "idle"
    /\ TotalLen(Refs) + Cardinality({u \in Threads : pc[u] # "idle"}) < MaxDraws
    /\ IF img.dtype = "uint32"
       THEN /\ pc' = [pc EXCEPT ![t] = "draw_image_399"]
            /\ local' = [local EXCEPT ![t].img = img]
       ELSE UNCHANGED <<pc, local>>
    /\ last' = Call("draw_image", t, 0,
                    IF img.dtype = "uint32" THEN "ok" ELSE "AssertionError")
    /\ UNCHANGED <<notImageThreads, bufferVars, imageVars>>

draw_image_399(t) ==
    /\ pc[t] = "draw_image_399"
    /\ image_id_lock_free(t)
    /\ image_id_lock' = t
    /\ lock_entries' = Append(lock_entries, [thread |-> t, image_id |-> 0])
    /\ pc' = [pc EXCEPT ![t] = "draw_image_400_load"]
    /\ UNCHANGED <<notImageThreads, bufferVars, image_id, local, last>>

draw_image_400_load(t) ==
    /\ pc[t] = "draw_image_400_load"
    /\ local' = [local EXCEPT ![t].tmp = image_id]
    /\ pc' = [pc EXCEPT ![t] = "draw_image_400_store"]
    /\ UNCHANGED <<notImageThreads, bufferVars, imageVars, last>>

draw_image_400_store(t) ==
    /\ pc[t] = "draw_image_400_store"
    /\ image_id' = local[t].tmp + 1
    /\ pc' = [pc EXCEPT ![t] = "draw_image_401"]
    /\ UNCHANGED <<notImageThreads, bufferVars, image_id_lock, lock_entries, local, last>>

\* image_id = DrawingContext.__image_id, and the with block ends.
draw_image_401(t) ==
    /\ pc[t] = "draw_image_401"
    /\ local' = [local EXCEPT ![t].image_id = image_id]
    /\ LET i == CHOOSE k \in 1..Len(lock_entries) :
                   /\ lock_entries[k].thread = t
                   /\ \A m \in (k + 1)..Len(lock_entries) :
                         lock_entries[m].thread # t
       IN lock_entries' = [lock_entries EXCEPT ![i].image_id = image_id]
    /\ image_id_lock' = 0
    /\ pc' = [pc EXCEPT ![t] = "draw_image_402"]
    /\ UNCHANGED <<notImageThreads, bufferVars, image_id, last>>

draw_image_402(t, rect) ==
    /\ pc[t] = "draw_image_402"
    /\ LET img == local[t].img IN
         lists' = ListExtend(commands[t],
            << <<"image", img.shape[2], img.shape[1], img, local[t].image_id,
                 float(rect[1]), float(rect[2]), float(rect[3]),
                 float(rect[4])>> >>)
    /\ pc' = [pc EXCEPT ![t] = "idle"]
    /\ UNCHANGED <<notImageThreads, commands, save_count, imageVars, local, last>>

NextImageThreads ==
    \/ \E t \in Threads, img \in Images : draw_image_398(t, img)
    \/ \E t \in Threads : draw_image_399(t)
    \/ \E t \in Threads : draw_image_400_load(t)
    \/ \E t \in Threads : draw_image_400_store(t)
    \/ \E t \in Threads : draw_image_401(t)
    \/ \E t \in Threads, rect \in ImageRects : draw_image_402(t, rect)

SpecImageThreads == Init /\ [][NextImageThreads]_vars

\* ---------------------------------------------------------- builder methods
\* self.commands.append(cmd), the whole body of most builder methods.
commands_append(self, op, cmd) ==
    /\ ~raising
    /\ Room(1)
    /\ lists' = ListExtend(commands[self], <<cmd>>)
    /\ last' = Call(op, self, 0, "ok")
    /\ UNCHANGED <<commands, save_count, gradientVars, imageVars, threadVars,
                   replayVars, layerVars, scopeVars>>

\* math.degrees of an angle given in units of pi / 4.
math_degrees(radians) == 45 * radians
begin_path(self) == commands_append(self, "begin_path", <<"beginPath">>)

close_path(self) == commands_append(self, "close_path", <<"closePath">>)

clip_rect(self, r) ==
    commands_append(self, "clip_rect",
                    <<"clip", float(r[1]), float(r[2]), float(r[3]), float(r[4])>>)

translate(self, p) ==
    commands_append(self, "translate", <<"translate", float(p[1]), float(p[2])>>)

scale(self, p) ==
    commands_append(self, "scale", <<"scale", float(p[1]), float(p[2])>>)

rotate(self, radians) ==
    commands_append(self, "rotate", <<"rotate", math_degrees(float(radians))>>)

move_to(self, p) ==
    commands_append(self, "move_to", <<"moveTo", float(p[1]), float(p[2])>>)

line_to(self, p) ==
    commands_append(self, "line_to", <<"lineTo", float(p[1]), float(p[2])>>)

rect(self, r) ==
    commands_append(self, "rect",
                    <<"rect", float(r[1]), float(r[2]), float(r[3]), float(r[4])>>)

\* A plausible slip: the outline is left open.
round_rect_commands_without_close(x, y, w, h, r) ==
    LET arc_to_command(x1, y1, x2, y2) ==
            <<"arcTo", float(x1), float(y1), float(x2), float(y2), float(r)>>
    IN << <<"moveTo", float(x + r), float(y)>>,
          arc_to_command(x + w, y, x + w, y + h),
          arc_to_command(x + w, y + h, x, y + h),
          arc_to_command(x, y + h, x, y),
          arc_to_command(x, y, x + w, y) >>

\* round_rect calls move_to, arc_to four times and close_path.
round_rect_commands(x, y, w, h, r) ==
    LET arc_to_command(x1, y1, x2, y2) ==
            <<"arcTo", float(x1), float(y1), float(x2), float(y2), float(r)>>
    IN << <<"moveTo", float(x + r), float(y)>>,
          arc_to_command(x + w, y, x + w, y + h),
          arc_to_command(x + w, y + h, x, y + h),
          arc_to_command(x, y + h, x, y),
          arc_to_command(x, y, x + w, y),
          <<"closePath">> >>

round_rect(self, rc, r) ==
    /\ ~raising
    /\ Room(1)
    /\ lists' = ListExtend(commands[self],
                           round_rect_commands(rc[1], rc[2], rc[3], rc[4], r))
    /\ last' = Call("round_rect", self, 0, "ok")
    /\ UNCHANGED <<commands, save_count, gradientVars, imageVars, threadVars,
                   replayVars, layerVars, scopeVars>>

arc(self, p, r, sa, ea, ac) ==
    commands_append(self, "arc",
                    <<"arc", float(p[1]), float(p[2]), float(r), float(sa),
                      float(ea), ac>>)

arc_to(self, p, q, r) ==
    commands_append(self, "arc_to",
                    <<"arcTo", float(p[1]), float(p[2]), float(q[1]), float(q[2]),
                      float(r)>>)

\* draw_image called by the one thread of the program: the assert, the counter
\* under its lock, the append.
draw_image(self, img, r) ==
    /\ ~raising
    /\ Room(1)
    /\ image_id_lock = 0
    /\ IF img.dtype # "uint32"
       THEN /\ UNCHANGED <<lists, imageVars>>
            /\ raising' = Propagates
            /\ last' = Call("draw_image", self, 0, "AssertionError")
       ELSE /\ image_id' = image_id + 1
            /\ lock_entries' =
                 Append(lock_entries, [thread |-> 0, image_id |-> image_id + 1])
            /\ lists' = ListExtend(commands[self],
                 << <<"image", img.shape[2], img.shape[1], img, image_id + 1,
                      float(r[1]), float(r[2]), float(r[3]), float(r[4])>> >>)
            /\ UNCHANGED <<image_id_lock, raising>>
            /\ last' = Call("draw_image", self, 0, "ok")
    /\ UNCHANGED <<commands, save_count, gradientVars, threadVars, replayVars,
                   layerVars, scopes>>

stroke(self) == commands_append(self, "stroke", <<"stroke">>)

sleep(self, duration) == commands_append(self, "sleep", <<"sleep", duration>>)

\* time.perf_counter() gives the caller's clock reading.
mark_latency(self, now) == commands_append(self, "mark_latency", <<"latency", now>>)

\* The text is a str, which Unicode.u gives back as it is; a max_width of None
\* or 0 is stored as 0.
fill_text(self, text, p, max_width) ==
    commands_append(self, "fill_text",
                    <<"fillText", text, float(p[1]), float(p[2]),
                      IF max_width # 0 THEN float(max_width) ELSE 0>>)

font(self, a) == commands_append(self, "font", <<"font", a>>)

text_align(self, a) == commands_append(self, "text_align", <<"textAlign", a>>)

text_baseline(self, a) ==
    commands_append(self, "text_baseline", <<"textBaseline", a>>)

stroke_style(self, a) ==
    commands_append(self, "stroke_style", <<"strokeStyle", a>>)

line_width(self, a) == commands_append(self, "line_width", <<"lineWidth", float(a)>>)

line_dash(self, a) == commands_append(self, "line_dash", <<"lineDash", float(a)>>)

line_cap(self, a) == commands_append(self, "line_cap", <<"lineCap", a>>)

line_join(self, a) == commands_append(self, "line_join", <<"lineJoin", a>>)

statistics(self, stat_id) ==
    commands_append(self, "statistics", <<"statistics", stat_id>>)

\* ------------------------------------------------------------------ to_svg
\* The loop body of to_svg: one operator per branch, from the locals st and the
\* command c to the locals after it.  Strings that to_svg builds by format()
\* are kept as tuples of their parts, and the concatenated output as sequences.
\* A plausible slip: a key that the table does not hold is passed on as it is.
dict_get_passes_unknown(d, key, default) == IF key \in DOMAIN d THEN d[key] ELSE key

dict_get(d, key, default) == IF key \in DOMAIN d THEN d[key] ELSE default

transform_str(st) == st.transform

\* A plausible slip: the scope starts with the pending closers of the scope
\* around it.
svg_save_keeps_closers(st, c) ==
    LET context == [path |-> st.path, transform |-> st.transform,
                    fill_style |-> st.fill_style,
                    stroke_style |-> st.stroke_style,
                    line_cap |-> st.line_cap, line_join |-> st.line_join,
                    line_width |-> st.line_width, line_dash |-> st.line_dash,
                    font_style |-> st.font_style,
                    font_weight |-> st.font_weight,
                    font_size |-> st.font_size,
                    font_family |-> st.font_family,
                    text_anchor |-> st.text_anchor,
                    text_baseline |-> st.text_baseline,
                    closers |-> st.closers]
    IN [st EXCEPT !.contexts = Append(@, context)]

svg_save(st, c) ==
    LET context == [path |-> st.path, transform |-> st.transform,
                    fill_style |-> st.fill_style,
                    stroke_style |-> st.stroke_style,
                    line_cap |-> st.line_cap, line_join |-> st.line_join,
                    line_width |-> st.line_width, line_dash |-> st.line_dash,
                    font_style |-> st.font_style,
                    font_weight |-> st.font_weight,
                    font_size |-> st.font_size,
                    font_family |-> st.font_family,
                    text_anchor |-> st.text_anchor,
                    text_baseline |-> st.text_baseline,
                    closers |-> st.closers]
    IN [st EXCEPT !.closers = <<>>, !.contexts = Append(@, context)]

\* A plausible slip: one field of the snapshot is not put back.
svg_restore_without_stroke_style(st, c) ==
    IF st.contexts = <<>>
    THEN [st EXCEPT !.svg = @ \o st.closers, !.error = "IndexError"]
    ELSE LET context == st.contexts[Len(st.contexts)] IN
         [st EXCEPT !.svg = @ \o st.closers,
                    !.contexts = SubSeq(@, 1, Len(@) - 1),
                    !.path = context.path,
                    !.transform = context.transform,
                    !.fill_style = context.fill_style,
                    !.font_style = context.font_style,
                    !.font_weight = context.font_weight,
                    !.font_size = context.font_size,
                    !.font_family = context.font_family,
                    !.text_anchor = context.text_anchor,
                    !.text_baseline = context.text_baseline,
                    !.line_cap = context.line_cap,
                    !.line_join = context.line_join,
                    !.line_width = context.line_width,
                    !.line_dash = context.line_dash,
                    !.closers = context.closers]

\* A plausible slip: the transform list of the scope outlives its restore.
svg_restore_keeps_transform(st, c) ==
    IF st.contexts = <<>>
    THEN [st EXCEPT !.svg = @ \o st.closers, !.error = "IndexError"]
    ELSE LET context == st.contexts[Len(st.contexts)] IN
         [st EXCEPT !.svg = @ \o st.closers,
                    !.contexts = SubSeq(@, 1, Len(@) - 1),
                    !.path = context.path,
                    !.fill_style = context.fill_style,
                    !.font_style = context.font_style,
                    !.font_weight = context.font_weight,
                    !.font_size = context.font_size,
                    !.font_family = context.font_family,
                    !.text_anchor = context.text_anchor,
                    !.text_baseline = context.text_baseline,
                    !.stroke_style = context.stroke_style,
                    !.line_cap = context.line_cap,
                    !.line_join = context.line_join,
                    !.line_width = context.line_width,
                    !.line_dash = context.line_dash,
                    !.closers = context.closers]

svg_restore(st, c) ==
    IF st.contexts = <<>>
    THEN [st EXCEPT !.svg = @ \o st.closers, !.error = "IndexError"]
    ELSE LET context == st.contexts[Len(st.contexts)] IN
         [st EXCEPT !.svg = @ \o st.closers,
                    !.contexts = SubSeq(@, 1, Len(@) - 1),
                    !.path = context.path,
                    !.transform = context.transform,
                    !.fill_style = context.fill_style,
                    !.font_style = context.font_style,
                    !.font_weight = context.font_weight,
                    !.font_size = context.font_size,
                    !.font_family = context.font_family,
                    !.text_anchor = context.text_anchor,
                    !.text_baseline = context.text_baseline,
                    !.stroke_style = context.stroke_style,
                    !.line_cap = context.line_cap,
                    !.line_join = context.line_join,
                    !.line_width = context.line_width,
                    !.line_dash = context.line_dash,
                    !.closers = context.closers]

\* A plausible slip: the corners are visited in the other direction.
svg_rect_other_way(st, c) ==
    LET x == c[2]  y == c[3]  w == c[4]  h == c[5] IN
    [st EXCEPT !.path = @ \o << <<"M", x, y>>, <<"L", x, y + h>>,
                                <<"L", x + w, y + h>>, <<"L", x + w, y>>,
                                <<"Z">> >>]

svg_rect(st, c) ==
    LET x == c[2]  y == c[3]  w == c[4]  h == c[5] IN
    [st EXCEPT !.path = @ \o << <<"M", x, y>>, <<"L", x + w, y>>,
                                <<"L", x + w, y + h>>, <<"L", x, y + h>>,
                                <<"Z">> >>]

\* A plausible slip: the clips are numbered within their scope.
svg_clip_numbered_in_scope(st, c) ==
    LET clip_id == <<"clip", Len(st.closers) + 1>> IN
    [st EXCEPT !.next_clip_id = Len(st.closers) + 2,
               !.defs = Append(@, <<"clipPath", clip_id, c[2], c[3], c[4], c[5],
                                    transform_str(st)>>),
               !.svg = Append(@, <<"g", clip_id>>),
               !.closers = Append(@, <<"/g">>)]

svg_clip(st, c) ==
    LET clip_id == <<"clip", st.next_clip_id>> IN
    [st EXCEPT !.next_clip_id = @ + 1,
               !.defs = Append(@, <<"clipPath", clip_id, c[2], c[3], c[4], c[5],
                                    transform_str(st)>>),
               !.svg = Append(@, <<"g", clip_id>>),
               !.closers = Append(@, <<"/g">>)]

\* `if line_dash`: None and 0.0 are false.
dash_str(st) ==
    IF st.line_dash # Nothing /\ st.line_dash[1] # 0
    THEN <<st.line_dash[1], st.line_dash[1]>>
    ELSE <<>>

\* A plausible slip: the path is used up by the stroke, as by a begin-path.
svg_stroke_clears_path(st, c) ==
    IF st.stroke_style # None
    THEN [st EXCEPT !.svg = Append(@, <<"path", st.path, "transparent",
                                        st.stroke_style, st.line_width,
                                        st.line_join, st.line_cap,
                                        dash_str(st), transform_str(st)>>),
                    !.path = <<>>]
    ELSE st

svg_stroke(st, c) ==
    IF st.stroke_style # None
    THEN [st EXCEPT !.svg = Append(@, <<"path", st.path, "transparent",
                                        st.stroke_style, st.line_width,
                                        st.line_join, st.line_cap,
                                        dash_str(st), transform_str(st)>>)]
    ELSE st

\* A plausible slip: the fill element is written whether a style is set or not.
svg_fill_unguarded(st, c) ==
    [st EXCEPT !.svg = Append(@, <<"path", st.path, st.fill_style,
                                   "transparent", transform_str(st)>>)]

svg_fill(st, c) ==
    IF st.fill_style # None
    THEN [st EXCEPT !.svg = Append(@, <<"path", st.path, st.fill_style,
                                        "transparent", transform_str(st)>>)]
    ELSE st

svg_fillStyleGradient(st, c) ==
    IF st.gradient_start = Nothing
    THEN [st EXCEPT !.error = "TypeError"]
    ELSE [st EXCEPT !.defs = Append(@, <<"linearGradient", st.gradient_start,
                                         st.gradient_stops>>),
                    !.fill_style = "url(#grad" \o ToString(c[2]) \o ")"]

text_anchors ==
    ("start" :> "start") @@ ("end" :> "end") @@ ("left" :> "start")
      @@ ("center" :> "middle") @@ ("right" :> "end")

text_baselines ==
    ("top" :> "hanging") @@ ("hanging" :> "hanging") @@ ("middle" :> "middle")
      @@ ("alphabetic" :> "alphabetic") @@ ("ideaographic" :> "ideaographic")
      @@ ("bottom" :> "bottom")

line_caps == ("square" :> "square") @@ ("round" :> "round") @@ ("butt" :> "butt")

line_joins == ("round" :> "round") @@ ("miter" :> "miter") @@ ("bevel" :> "bevel")

\* x1 / w and the like are kept as the pair of their operands; a zero width or
\* height raises ZeroDivisionError.
svg_gradient(st, c) ==
    LET command_var == c[2]  w == c[3]  h == c[4] IN
    IF w = 0 \/ h = 0
    THEN [st EXCEPT !.error = "ZeroDivisionError"]
    ELSE [st EXCEPT !.gradient_start =
            <<"linearGradient", "grad" \o ToString(command_var),
              <<c[5], w>>, <<c[6], h>>, <<c[7], w>>, <<c[8], h>> >>]

\* Strings whose characters matter (font shorthands, texts) are sequences of
\* one-character strings.
Digits ==
    ("0" :> 0) @@ ("1" :> 1) @@ ("2" :> 2) @@ ("3" :> 3) @@ ("4" :> 4)
      @@ ("5" :> 5) @@ ("6" :> 6) @@ ("7" :> 7) @@ ("8" :> 8) @@ ("9" :> 9)

\* str.split(" "): the pieces between single spaces, empty pieces included.
RECURSIVE split(_)
split(s) ==
    IF \A k \in 1..Len(s) : s[k] # " "
    THEN <<s>>
    ELSE LET k == CHOOSE j \in 1..Len(s) :
                    s[j] = " " /\ \A m \in 1..(j - 1) : s[m] # " "
         IN <<SubSeq(s, 1, k - 1)>> \o split(SubSeq(s, k + 1, Len(s)))

endswith_px(s) == Len(s) >= 2 /\ s[Len(s) - 1] = "p" /\ s[Len(s)] = "x"

\* int(s) of a string without blanks and underscores: an optional sign and
\* at least one decimal digit, anything else raises ValueError.
int_raises(s) ==
    LET digits == IF s # <<>> /\ s[1] \in {"+", "-"} THEN Tail(s) ELSE s IN
    digits = <<>> \/ \E k \in 1..Len(digits) : digits[k] \notin DOMAIN Digits

RECURSIVE DecimalValue(_)
DecimalValue(s) ==
    IF s = <<>> THEN 0
    ELSE 10 * DecimalValue(SubSeq(s, 1, Len(s) - 1)) + Digits[s[Len(s)]]

int(s) ==
    CASE s[1] = "-" -> 0 - DecimalValue(Tail(s))
      [] s[1] = "+" -> DecimalValue(Tail(s))
      [] OTHER -> DecimalValue(s)

\* The loop over the parts of a font shorthand.
RECURSIVE svg_font_parts(_, _)
svg_font_parts(st, parts) ==
    LET font_part == Head(parts)
        number == SubSeq(font_part, 1, Len(font_part) - 2)
    IN IF parts = <<>> \/ st.error # None THEN st
       ELSE svg_font_parts(
              IF font_part = <<"i", "t", "a", "l", "i", "c">>
              THEN [st EXCEPT !.font_style = "italic"]
              ELSE IF font_part = <<"b", "o", "l", "d">>
              THEN [st EXCEPT !.font_weight = "bold"]
              ELSE IF endswith_px(font_part) /\ int_raises(number)
              THEN [st EXCEPT !.error = "ValueError"]
              ELSE IF endswith_px(font_part) /\ int(number) > 0
              THEN [st EXCEPT !.font_size = <<int(number)>>]
              ELSE [st EXCEPT !.font_family = font_part],
              Tail(parts))

svg_font(st, c) ==
    svg_font_parts([st EXCEPT !.font_style = None, !.font_weight = None,
                              !.font_size = Nothing, !.font_family = Nothing],
                   SelectSeq(split(c[2]), LAMBDA s : s # <<>>))

\* xml.sax.saxutils.escape: &, < and > are replaced by their entities.
RECURSIVE escape(_)
escape(text) ==
    IF text = <<>> THEN <<>>
    ELSE (CASE Head(text) = "&" -> <<"&", "a", "m", "p", ";">>
            [] Head(text) = "<" -> <<"&", "l", "t", ";">>
            [] Head(text) = ">" -> <<"&", "g", "t", ";">>
            [] OTHER -> <<Head(text)>>) \o escape(Tail(text))

font_str(st) ==
    (IF st.font_style # None THEN << <<"font-style", st.font_style>> >>
     ELSE <<>>)
    \o (IF st.font_weight # None THEN << <<"font-weight", st.font_weight>> >>
        ELSE <<>>)
    \o (IF st.font_size # Nothing /\ st.font_size[1] # 0
        THEN << <<"font-size", st.font_size[1]>> >> ELSE <<>>)
    \o (IF st.font_family # Nothing THEN << <<"font-family", st.font_family>> >>
        ELSE <<>>)

svg_fillText(st, c) ==
    LET text == c[2]  x == c[3]  y == c[4] IN
    [st EXCEPT !.svg = Append(@, <<"text", x, y, st.text_anchor,
                                   st.text_baseline, font_str(st),
                                   transform_str(st), escape(text)>>)]

\* The if / elif chain of the loop; the final else only logs the command.
\* Offsets of colour stops are whole, so that int(x * 100) is x * 100; the
\* image is embedded as the png encoding of its pixels.
svg_command(st, c) ==
    CASE c[1] = "save" -> svg_save(st, c)
      [] c[1] = "restore" -> svg_restore(st, c)
      [] c[1] = "beginPath" -> [st EXCEPT !.path = <<>>]
      [] c[1] = "closePath" -> [st EXCEPT !.path = Append(@, <<"Z">>)]
      [] c[1] = "moveTo" -> [st EXCEPT !.path = Append(@, <<"M", c[2], c[3]>>)]
      [] c[1] = "lineTo" -> [st EXCEPT !.path = Append(@, <<"L", c[2], c[3]>>)]
      [] c[1] = "rect" -> svg_rect(st, c)
      [] c[1] = "arc" -> st
      [] c[1] = "arcTo" -> st
      [] c[1] = "clip" -> svg_clip(st, c)
      [] c[1] = "translate" ->
            [st EXCEPT !.transform = Append(@, <<"translate", c[2], c[3]>>)]
      [] c[1] = "scale" ->
            [st EXCEPT !.transform = Append(@, <<"scale", c[2], c[3]>>)]
      [] c[1] = "rotate" -> [st EXCEPT !.transform = Append(@, <<"rotate", c[2]>>)]
      [] c[1] = "image" ->
            [st EXCEPT !.svg = Append(@, <<"image", c[6], c[7], c[8], c[9],
                                           <<"png", c[4]>>, transform_str(st)>>)]
      [] c[1] = "stroke" -> svg_stroke(st, c)
      [] c[1] = "sleep" -> st
      [] c[1] = "fill" -> svg_fill(st, c)
      [] c[1] = "fillText" -> svg_fillText(st, c)
      [] c[1] = "fillStyleGradient" -> svg_fillStyleGradient(st, c)
      [] c[1] = "fillStyle" -> [st EXCEPT !.fill_style = c[2]]
      [] c[1] = "font" -> svg_font(st, c)
      [] c[1] = "textAlign" ->
            [st EXCEPT !.text_anchor = dict_get(text_anchors, c[2], "start")]
      [] c[1] = "textBaseline" ->
            [st EXCEPT !.text_baseline =
                          dict_get(text_baselines, c[2], "alphabetic")]
      [] c[1] = "strokeStyle" -> [st EXCEPT !.stroke_style = c[2]]
      [] c[1] = "lineWidth" -> [st EXCEPT !.line_width = c[2]]
      [] c[1] = "lineDash" -> [st EXCEPT !.line_dash = <<c[2]>>]
      [] c[1] = "lineCap" ->
            [st EXCEPT !.line_cap = dict_get(line_caps, c[2], "square")]
      [] c[1] = "lineJoin" ->
            [st EXCEPT !.line_join = dict_get(line_joins, c[2], "bevel")]
      [] c[1] = "gradient" -> svg_gradient(st, c)
      [] c[1] = "colorStop" ->
            [st EXCEPT !.gradient_stops = Append(@, <<"stop", c[3] * 100, c[4]>>)]
      [] OTHER -> st

\* A plausible slip: a command of a kind without a branch ends the replay.
RECURSIVE to_svg_loop_raises_on_unknown(_, _)
to_svg_loop_raises_on_unknown(cmds, trace) ==
    LET k == Len(trace) IN
    IF k > Len(cmds) \/ trace[k].error # None THEN trace
    ELSE to_svg_loop_raises_on_unknown(cmds,
           Append(trace,
                  IF cmds[k][1] \in {"latency", "statistics"}
                  THEN [trace[k] EXCEPT !.error = "ValueError"]
                  ELSE svg_command(trace[k], cmds[k])))

\* The loop of to_svg: trace[k + 1] holds the locals after the first k
\* commands; an exception ends the loop at the command that raised it.
RECURSIVE to_svg_loop(_, _)
to_svg_loop(cmds, trace) ==
    LET k == Len(trace) IN
    IF k > Len(cmds) \/ trace[k].error # None THEN trace
    ELSE to_svg_loop(cmds, Append(trace, svg_command(trace[k], cmds[k])))

\* The string that to_svg returns, from the locals at the end of the loop.
to_svg_result(st, size, viewbox) ==
    <<"svg", size, viewbox, <<"defs", st.defs>>, st.svg>>

\* ------------------------------------------------------------------- to_js
\* What the loop of to_js adds to js for one command: the statements, each a
\* tuple of the call or property and its formatted arguments.
js_command(c) ==
    CASE c[1] = "save" -> << <<"ctx.save">> >>
      [] c[1] = "restore" -> << <<"ctx.restore">> >>
      [] c[1] = "beginPath" -> << <<"ctx.beginPath">> >>
      [] c[1] = "closePath" -> << <<"ctx.closePath">> >>
      [] c[1] = "clip" -> << <<"ctx.beginPath">>,
                             <<"ctx.rect", c[2], c[3], c[4], c[5]>>,
                             <<"ctx.clip">> >>
      [] c[1] = "translate" -> << <<"ctx.translate", c[2], c[3]>> >>
      [] c[1] = "scale" -> << <<"ctx.scale", c[2], c[3]>> >>
      [] c[1] = "rotate" -> << <<"ctx.rotate", c[2]>> >>
      [] c[1] = "moveTo" -> << <<"ctx.moveTo", c[2], c[3]>> >>
      [] c[1] = "lineTo" -> << <<"ctx.lineTo", c[2], c[3]>> >>
      [] c[1] = "rect" -> << <<"ctx.rect", c[2], c[3], c[4], c[5]>> >>
      [] c[1] = "arc" -> << <<"ctx.arc", c[2], c[3], c[4], c[5], c[6],
                              IF c[7] THEN "true" ELSE "false">> >>
      [] c[1] = "arcTo" -> << <<"ctx.arcTo", c[2], c[3], c[4], c[5], c[6]>> >>
      [] c[1] = "image" -> << <<"ctx.rect", c[6], c[7], c[8], c[9]>> >>
      [] c[1] = "stroke" -> << <<"ctx.stroke">> >>
      [] c[1] = "sleep" -> <<>>
      [] c[1] = "fill" -> << <<"ctx.fill">> >>
      [] c[1] = "fillText" ->
            << <<"ctx.fillText", escape(c[2]), c[3], c[4],
                 IF c[5] # 0 THEN <<c[5]>> ELSE <<>> >> >>
      [] c[1] = "fillStyleGradient" ->
            << <<"ctx.fillStyle", "grad" \o ToString(c[2])>> >>
      [] c[1] = "fillStyle" -> << <<"ctx.fillStyle", c[2]>> >>
      [] c[1] = "font" -> << <<"ctx.font", c[2]>> >>
      [] c[1] = "textAlign" -> << <<"ctx.textAlign", c[2]>> >>
      [] c[1] = "textBaseline" -> << <<"ctx.textBaseline", c[2]>> >>
      [] c[1] = "strokeStyle" -> << <<"ctx.strokeStyle", c[2]>> >>
      [] c[1] = "lineWidth" -> << <<"ctx.lineWidth", c[2]>> >>
      [] c[1] = "lineDash" -> << <<"ctx.lineDash", c[2]>> >>
      [] c[1] = "lineCap" -> << <<"ctx.lineCap", c[2]>> >>
      [] c[1] = "lineJoin" -> << <<"ctx.lineJoin", c[2]>> >>
      [] c[1] = "gradient" ->
            << <<"var", "grad" \o ToString(c[2]), "ctx.createLinearGradient",
                 c[5], c[6], c[7] - c[5], c[8] - c[6]>> >>
      [] c[1] = "colorStop" ->
            << <<"grad" \o ToString(c[2]) \o ".addColorStop", c[3], c[4]>> >>
      [] OTHER -> <<>>

\* A plausible slip: a fill is written only once a fill style has been set.
RECURSIVE to_js_loop_fill_needs_style(_)
to_js_loop_fill_needs_style(cmds) ==
    IF cmds = <<>> THEN <<>>
    ELSE LET front == SubSeq(cmds, 1, Len(cmds) - 1)
             c == cmds[Len(cmds)]
         IN to_js_loop_fill_needs_style(front)
              \o (IF /\ c[1] = "fill"
                     /\ \A k \in 1..Len(front) : front[k][1] # "fillStyle"
                  THEN <<>> ELSE js_command(c))

RECURSIVE to_js_loop(_)
to_js_loop(cmds) ==
    IF cmds = <<>> THEN <<>> ELSE js_command(Head(cmds)) \o to_js_loop(Tail(cmds))

\* ------------------------------------------------------------------ replay
\* to_js and to_svg are calls that run to their end; `results` collects what
\* each call gave its caller and `replay` keeps the locals of the last to_svg
\* call, command by command.
MaxReplays == 2

notReplay ==
    <<bufferVars, gradientVars, imageVars, threadVars, layerVars, scopes>>

Result(kind, self, error, out) ==
    [kind |-> kind, self |-> self, error |-> error, out |-> out]

to_js(self) ==
    /\ ~raising
    /\ Len(results) < MaxReplays
    /\ results' = Append(results, Result("js", self, None, to_js_loop(Commands(self))))
    /\ last' = Call("to_js", self, 0, "ok")
    /\ UNCHANGED <<notReplay, replay, raising>>

\* A plausible slip: the clip counter is kept from one call to the next.
to_svg_keeps_clip_ids(self, size, viewbox) ==
    /\ ~raising
    /\ Len(results) < MaxReplays
    /\ LET trace == to_svg_loop(Commands(self),
                       <<[SvgLocals EXCEPT !.next_clip_id = replay.st.next_clip_id]>>)
           st == trace[Len(trace)]
       IN /\ replay' = [status |-> IF st.error = None THEN "returned" ELSE "raised",
                        self |-> self, i |-> Len(trace) - 1, size |-> size,
                        viewbox |-> viewbox, st |-> st, trace |-> trace]
          /\ results' = Append(results,
                Result("svg", self, st.error,
                       IF st.error = None THEN to_svg_result(st, size, viewbox)
                       ELSE <<>>))
          /\ last' = Call("to_svg", self, 0, IF st.error = None THEN "ok" ELSE st.error)
          /\ raising' = (st.error # None /\ Propagates)
    /\ UNCHANGED notReplay

to_svg(self, size, viewbox) ==
    /\ ~raising
    /\ Len(results) < MaxReplays
    /\ LET trace == to_svg_loop(Commands(self), <<SvgLocals>>)
           st == trace[Len(trace)]
       IN /\ replay' = [status |-> IF st.error = None THEN "returned" ELSE "raised",
                        self |-> self, i |-> Len(trace) - 1, size |-> size,
                        viewbox |-> viewbox, st |-> st, trace |-> trace]
          /\ results' = Append(results,
                Result("svg", self, st.error,
                       IF st.error = None THEN to_svg_result(st, size, viewbox)
                       ELSE <<>>))
          /\ last' = Call("to_svg", self, 0, IF st.error = None THEN "ok" ELSE st.error)
          /\ raising' = (st.error # None /\ Propagates)
    /\ UNCHANGED notReplay

\* The caller builds the picture before it replays it.
Building == results = <<>>

\* One drawing context whose picture is built and then replayed.
\* SpecSvgState: save / restore scopes and one command for every field of the
\* live state of to_svg.
MaxSaves == 2
MaxChanges == 1

Kinds(cmds, ids) == {k \in 1..Len(cmds) : cmds[k][1] \in ids}

MaxPicture == 5

InitReplay ==
    /\ InitBuffers
    /\ capacity = MaxPicture
    /\ storage = [b \in Buffers |-> None]
    /\ InitRest

CanChange ==
    /\ Building
    /\ Len(Commands(1)) - Cardinality(Kinds(Commands(1), {"save", "restore"}))
         < MaxChanges

NextSvgState ==
    \/ Building /\ Cardinality(Kinds(Commands(1), {"save"})) < MaxSaves /\ save(1)
    \/ Building /\ save_count[1] > 0 /\ restore(1)
    \/ CanChange /\ move_to(1, <<10, 20>>)
    \/ CanChange /\ translate(1, <<10, 20>>)
    \/ CanChange /\ clip_rect(1, <<10, 20, 30, 40>>)
    \/ CanChange /\ fill_style(1, ColorValue("#FFF"))
    \/ CanChange /\ stroke_style(1, "#000")
    \/ CanChange /\ line_width(1, 2)
    \/ CanChange /\ line_dash(1, 4)
    \/ CanChange /\ line_cap(1, "round")
    \/ CanChange /\ line_join(1, "miter")
    \/ CanChange /\ text_align(1, "center")
    \/ CanChange /\ text_baseline(1, "middle")
    \/ CanChange /\ font(1, <<"b", "o", "l", "d", " ", "9", "p", "x", " ", "A">>)
    \/ Building /\ to_svg(1, <<100, 50>>, <<0, 0, 100, 50>>)

SpecSvgState == InitReplay /\ [][NextSvgState]_vars

\* SpecSvgPath: paths, the two paint commands and their styles; the picture is
\* replayed once, by to_js or by to_svg.
MaxDrawing == 4

CanDraw == Building /\ Len(Commands(1)) < MaxDrawing

NextSvgPath ==
    \/ CanDraw /\ begin_path(1)
    \/ CanDraw /\ move_to(1, <<10, 20>>)
    \/ CanDraw /\ line_to(1, <<40, 60>>)
    \/ CanDraw /\ close_path(1)
    \/ CanDraw /\ rect(1, <<10, 20, 30, 40>>)
    \/ CanDraw /\ stroke(1)
    \/ CanDraw /\ fill(1)
    \/ CanDraw /\ stroke_style(1, "#000")
    \/ CanDraw /\ fill_style(1, ColorValue("#FFF"))
    \/ Building /\ to_js(1)
    \/ Building /\ to_svg(1, <<100, 50>>, <<0, 0, 100, 50>>)

SpecSvgPath == InitReplay /\ [][NextSvgPath]_vars

\* SpecBuilder: every builder method, called on one drawing context.
MaxBuilt == 2

CanBuild == Building /\ Len(Commands(1)) < MaxBuilt

NextBuilder ==
    \/ CanBuild /\ save(1)
    \/ CanBuild /\ restore(1)
    \/ CanBuild /\ begin_path(1)
    \/ CanBuild /\ close_path(1)
    \/ CanBuild /\ clip_rect(1, <<10, 20, 30, 40>>)
    \/ CanBuild /\ translate(1, <<10, 20>>)
    \/ CanBuild /\ scale(1, <<2, 2>>)
    \/ CanBuild /\ rotate(1, 2)
    \/ CanBuild /\ move_to(1, <<10, 20>>)
    \/ CanBuild /\ line_to(1, <<40, 60>>)
    \/ CanBuild /\ rect(1, <<10, 20, 30, 40>>)
    \/ CanBuild /\ round_rect(1, <<10, 20, 30, 40>>, 5)
    \/ CanBuild /\ \E ac \in BOOLEAN : arc(1, <<10, 20>>, 5, 0, 2, ac)
    \/ CanBuild /\ arc_to(1, <<10, 20>>, <<40, 60>>, 5)
    \/ CanBuild /\ \E img \in Images : draw_image(1, img, <<0, 0, 2, 1>>)
    \/ CanBuild /\ stroke(1)
    \/ CanBuild /\ sleep(1, 1)
    \/ CanBuild /\ mark_latency(1, 7)
    \/ CanBuild /\ fill(1)
    \/ CanBuild /\ \E max_width \in {0, 80} :
                     fill_text(1, <<"a", "<", "b">>, <<10, 20>>, max_width)
    \/ CanBuild /\ fill_style(1, ColorValue("#FFF"))
    \/ CanBuild /\ font(1, <<"9", "p", "x">>)
    \/ CanBuild /\ text_align(1, "center")
    \/ CanBuild /\ text_baseline(1, "middle")
    \/ CanBuild /\ stroke_style(1, "#000")
    \/ CanBuild /\ line_width(1, 2)
    \/ CanBuild /\ line_dash(1, 4)
    \/ CanBuild /\ line_cap(1, "round")
    \/ CanBuild /\ line_join(1, "miter")
    \/ CanBuild /\ statistics(1, "paint")

SpecBuilder == InitReplay /\ [][NextBuilder]_vars

\* SpecSvgKeywords: the four keyword setters, with the values their tables
\* hold and values they do not hold, and to_svg.
NextSvgKeywords ==
    \/ CanBuild /\ \E a \in {"start", "end", "left", "center", "right", "justify"} :
                     text_align(1, a)
    \/ CanBuild /\ \E a \in {"top", "hanging", "middle", "alphabetic",
                            "ideaographic", "bottom", "ideographic"} :
                     text_baseline(1, a)
    \/ CanBuild /\ \E a \in {"square", "round", "butt", "flat"} : line_cap(1, a)
    \/ CanBuild /\ \E a \in {"round", "miter", "bevel", "mitre"} : line_join(1, a)
    \/ Building /\ to_svg(1, <<100, 50>>, <<0, 0, 100, 50>>)

SpecSvgKeywords == InitReplay /\ [][NextSvgKeywords]_vars

\* SpecSvgFont: the font setter and to_svg.  The shorthands, character by
\* character: "italic bold 14px Arial", "12px", "bold  Arial", "Arial Black",
\* "0px", "1.5px Arial", "px", "italic".
Shorthands ==
    {<<"i", "t", "a", "l", "i", "c", " ", "b", "o", "l", "d", " ", "1", "4", "p", "x", " ", "A", "r", "i", "a", "l">>,
     <<"1", "2", "p", "x">>,
     <<"b", "o", "l", "d", " ", " ", "A", "r", "i", "a", "l">>,
     <<"A", "r", "i", "a", "l", " ", "B", "l", "a", "c", "k">>,
     <<"0", "p", "x">>,
     <<"1", ".", "5", "p", "x", " ", "A", "r", "i", "a", "l">>,
     <<"p", "x">>,
     <<"i", "t", "a", "l", "i", "c">>}

NextSvgFont ==
    \/ CanBuild /\ \E a \in Shorthands : font(1, a)
    \/ Building /\ to_svg(1, <<100, 50>>, <<0, 0, 100, 50>>)

SpecSvgFont == InitReplay /\ [][NextSvgFont]_vars

\* SpecReplay: scopes and clips, balanced or not, replayed up to MaxReplays
\* times by to_js and to_svg.
NextReplay ==
    \/ CanDraw /\ save(1)
    \/ CanDraw /\ restore(1)
    \/ CanDraw /\ clip_rect(1, <<10, 20, 30, 40>>)
    \/ to_js(1)
    \/ to_svg(1, <<100, 50>>, <<0, 0, 100, 50>>)

SpecReplay == InitReplay /\ [][NextReplay]_vars

\* SpecSvgGradient: gradients are made, given their stops and installed as
\* fill style; then to_svg replays the buffer.
NextSvgGradient ==
    \/ Building /\ \E args \in GradientArgs : create_linear_gradient(args)
    \/ Building /\ \E g \in 1..Len(gradients), x \in Offsets, color \in Colors :
                     add_color_stop(g, x, color)
    \/ Building /\ \E a \in FillStyleValues : fill_style(1, a)
    \/ Building /\ to_svg(1, <<100, 50>>, <<0, 0, 100, 50>>)

SpecSvgGradient == InitReplay /\ [][NextSvgGradient]_vars

\* SpecSvgClip: clips and translations inside and outside nested scopes,
\* balanced or not; then to_svg replays the buffer.
MaxNested == 6

InitNested ==
    /\ InitBuffers
    /\ capacity = MaxNested
    /\ storage = [b \in Buffers |-> None]
    /\ InitRest

NextSvgClip ==
    \/ Building /\ save(1)
    \/ Building /\ restore(1)
    \/ Building /\ clip_rect(1, <<10, 20, 30, 40>>)
    \/ Building /\ translate(1, <<10, 20>>)
    \/ Building /\ to_svg(1, <<100, 50>>, <<0, 0, 100, 50>>)

SpecSvgClip == InitNested /\ [][NextSvgClip]_vars

\* SpecSvgTransform: the three transform commands inside and outside nested
\* scopes, balanced or not; then to_svg replays the buffer.
NextSvgTransform ==
    \/ Building /\ save(1)
    \/ Building /\ restore(1)
    \/ Building /\ translate(1, <<10, 20>>)
    \/ Building /\ scale(1, <<2, 2>>)
    \/ Building /\ rotate(1, 2)
    \/ Building /\ to_svg(1, <<100, 50>>, <<0, 0, 100, 50>>)

SpecSvgTransform == InitNested /\ [][NextSvgTransform]_vars

\* SpecInstrumented: the instrumentation commands among commands that draw;
\* the picture is replayed once, by to_js or by to_svg.  The interpreters have
\* a branch for sleep and none for the kinds latency and statistics.
NextInstrumented ==
    \/ CanDraw /\ sleep(1, 1)
    \/ CanDraw /\ mark_latency(1, 7)
    \/ CanDraw /\ statistics(1, "paint")
    \/ CanDraw /\ save(1)
    \/ CanDraw /\ save_count[1] > 0 /\ restore(1)
    \/ CanDraw /\ clip_rect(1, <<10, 20, 30, 40>>)
    \/ CanDraw /\ rect(1, <<10, 20, 30, 40>>)
    \/ CanDraw /\ fill_style(1, ColorValue("#FFF"))
    \/ CanDraw /\ fill(1)
    \/ Building /\ to_js(1)
    \/ Building /\ to_svg(1, <<100, 50>>, <<0, 0, 100, 50>>)

SpecInstrumented == InitReplay /\ [][NextInstrumented]_vars

\* SpecLog: two drawing contexts that add to each other, share a list after
\* copy_from and open saver() scopes; every builder method is called on the
\* first, as the first call after the saves and restores made so far.
CanLog == \A k \in 1..Len(Commands(1)) : Commands(1)[k][1] \in {"save", "restore"}

NextLog ==
    \/ CanLog /\ NextBuilder
    \/ \E self, other \in Buffers : add(self, other)
    \/ \E self, other \in Buffers : copy_from(self, other)
    \/ \E self \in Buffers : saver_enter(self)
    \/ block_raises
    \/ saver_exit

SpecLog == Init /\ [][NextLog]_vars

\* ---------------------------------------------------------- GridCanvasItem
\* The handlers of GridCanvasItem.  The delegate's item_count and
\* on_drag_started are read at every use, so the delegate may change them
\* between two events.
MaxItems == 3

notGrid ==
    <<bufferVars, gradientVars, imageVars, pc, local, capacity, layerVars,
      scopeVars, replayVars>>

\* __calculate_item_size for a canvas of width w: the side of an item.  A
\* canvas narrower than 60 raises ZeroDivisionError.
calculate_item_size(w) == w \div ((w + 80 \div 4) \div 80)

get_item_index_at(g, x, y) ==
    LET item_size == calculate_item_size(g.canvas_width)
        items_per_row == g.canvas_width \div item_size
    IN (y \div item_size) * items_per_row + (x \div item_size)

\* A plausible slip: the distance is measured along the axes.
distance_gt_along_axes(p, q, d) ==
    (IF q[1] >= p[1] THEN q[1] - p[1] ELSE p[1] - q[1])
      + (IF q[2] >= p[2] THEN q[2] - p[2] ELSE p[2] - q[2]) > d

\* Geometry.distance(p, q) > d, for a whole d >= 0: compared by the squares.
distance_gt(p, q, d) ==
    (q[1] - p[1]) * (q[1] - p[1]) + (q[2] - p[2]) * (q[2] - p[2]) > d * d

\* The delegate's owner changes the number of items or on_drag_started.
delegate_changes(item_count, on_drag_started) ==
    /\ grid.delegate
    /\ grid' = [grid EXCEPT !.item_count = item_count,
                            !.on_drag_started = on_drag_started,
                            !.calls = <<>>]
    /\ last' = Call("delegate_changes", 0, 0, "ok")
    /\ UNCHANGED notGrid

detach_delegate ==
    /\ grid' = [grid EXCEPT !.delegate = FALSE, !.calls = <<>>]
    /\ last' = Call("detach_delegate", 0, 0, "ok")
    /\ UNCHANGED notGrid

\* update_layout computes the height from the item size before it hands the
\* size to the base class.
update_layout(canvas_width) ==
    /\ IF (canvas_width + 80 \div 4) \div 80 = 0
       THEN /\ grid' = [grid EXCEPT !.calls = <<>>]
            /\ last' = Call("update_layout", 0, canvas_width, "ZeroDivisionError")
       ELSE /\ grid' = [grid EXCEPT !.canvas_width = canvas_width,
                                    !.calls = << <<"super.update_layout">> >>]
            /\ last' = Call("update_layout", 0, canvas_width, "ok")
    /\ UNCHANGED notGrid

mouse_pressed(x, y, modifiers) ==
    /\ LET mouse_index == get_item_index_at(grid, x, y)
           max_index == grid.item_count
           g == [grid EXCEPT !.calls = <<>>, !.drags = 0]
       IN grid' =
            IF ~grid.delegate THEN g
            ELSE IF mouse_index >= 0 /\ mouse_index < max_index
            THEN IF ~modifiers.shift /\ ~modifiers.control
                 THEN [g EXCEPT !.mouse_index = <<mouse_index>>,
                                !.mouse_pressed = TRUE,
                                !.mouse_position = <<x, y>>]
                 ELSE [g EXCEPT !.mouse_index = <<mouse_index>>]
            ELSE [g EXCEPT !.calls = << <<"super.mouse_pressed">> >>]
    /\ last' = Call("mouse_pressed", 0, modifiers, "ok")
    /\ UNCHANGED notGrid

\* The body of mouse_released, which mouse_position_changed calls too: from
\* the item g to the item after it, the calls it makes added to g.calls.
mouse_released_body(g, x, y, modifiers) ==
    LET mouse_index == g.mouse_index
        max_index == g.item_count
        changes == /\ g.delegate /\ g.mouse_pressed
                   /\ mouse_index # Nothing
                   /\ mouse_index[1] >= 0 /\ mouse_index[1] < max_index
        call == IF modifiers.shift THEN <<"selection.extend", mouse_index[1]>>
                ELSE IF modifiers.control
                THEN <<"selection.toggle", mouse_index[1]>>
                ELSE <<"selection.set", mouse_index[1]>>
    IN [g EXCEPT !.calls = IF changes THEN Append(@, call) ELSE @,
                 !.mouse_pressed = FALSE,
                 !.mouse_index = Nothing,
                 !.mouse_position = Nothing,
                 !.mouse_dragging = FALSE]

mouse_released(x, y, modifiers) ==
    /\ grid' = mouse_released_body([grid EXCEPT !.calls = <<>>], x, y, modifiers)
    /\ last' = Call("mouse_released", 0, modifiers, "ok")
    /\ UNCHANGED notGrid

mouse_position_changed(x, y, modifiers) ==
    /\ LET g == [grid EXCEPT !.calls = <<>>] IN
       grid' =
         IF /\ grid.mouse_pressed
            /\ ~grid.mouse_dragging
            /\ distance_gt(grid.mouse_position, <<x, y>>, 8)
         THEN IF grid.delegate /\ grid.on_drag_started
              THEN mouse_released_body(
                     [g EXCEPT !.mouse_dragging = TRUE,
                               !.drags = @ + 1,
                               !.calls = << <<"root_container.bypass_request_focus">>,
                                            <<"on_drag_started", grid.mouse_index,
                                              x, y, modifiers>> >>],
                     x, y, modifiers)
              ELSE [g EXCEPT !.mouse_dragging = TRUE]
         ELSE [g EXCEPT !.calls = << <<"super.mouse_position_changed">> >>]
    /\ last' = Call("mouse_position_changed", 0, modifiers, "ok")
    /\ UNCHANGED notGrid

\* SpecGrid: mouse events in any order on a grid whose delegate and layout
\* change between them.  The button goes down in one of four cells; the
\* pointer moves to places at distances below, at and above 8 from the place
\* (10, 10), and to places far from it.
NextGrid ==
    \/ \E n \in 0..MaxItems, d \in BOOLEAN : delegate_changes(n, d)
    \/ detach_delegate
    \/ \E w \in {40, 100, 160} : update_layout(w)
    \/ \E x \in {10, 90}, y \in {10, 90}, m \in [shift : BOOLEAN, control : BOOLEAN] :
          mouse_pressed(x, y, m)
    \/ \E m \in [shift : BOOLEAN, control : BOOLEAN] : mouse_released(10, 10, m)
    \/ \E x \in {10, 15, 16, 18, 19, 90}, y \in {10, 16},
          m \in [shift : BOOLEAN, control : BOOLEAN] :
          mouse_position_changed(x, y, m)

SpecGrid == InitReplay /\ [][NextGrid]_vars

\* _repaint_visible.  A block of code run on a drawing context is seen by the
\* commands it appends and by whether it ends in an exception.
\* A plausible slip: restore() after the block without try / finally.
saver_without_finally(block) ==
    [cmds |-> << <<"save">> >> \o block.cmds
                \o (IF block.raised THEN <<>> ELSE << <<"restore">> >>),
     raised |-> block.raised]

\* `with drawing_context.saver():` around a block.
saver(block) ==
    [cmds |-> << <<"save">> >> \o block.cmds \o << <<"restore">> >>,
     raised |-> block.raised]

\* The delegate's paint_item for one item.  It leaves the save depth as it
\* found it: it draws with or without a scope of its own, or it raises at the
\* item paint.raises_at.
paint_item(paint, index) ==
    IF paint.raises_at = index
    THEN [cmds |-> IF paint.scoped THEN << <<"save">>, <<"restore">> >> ELSE <<>>,
          raised |-> TRUE]
    ELSE [cmds |-> IF paint.scoped
                   THEN << <<"save">>, <<"fill">>, <<"restore">> >>
                   ELSE << <<"fill">> >>,
          raised |-> FALSE]

\* The two loops over the rows and the columns, from the item index on: the
\* visible items in row order, each with its highlight when it is selected.
\* Geometry.IntRect.intersects_rect is false when one rectangle lies wholly to
\* the left of the other or wholly above it.
RECURSIVE repaint_items(_, _, _, _)
repaint_items(g, call, index, end) ==
    LET item_size == calculate_item_size(g.canvas_width)
        items_per_row == g.canvas_width \div item_size
        row == index \div items_per_row
        column == index % items_per_row
        item_rect == [top |-> row * item_size, left |-> column * item_size,
                      width |-> item_size, height |-> item_size]
        intersects_rect(a, b) ==
            ~(a.left > b.left + b.width \/ b.left > a.left + a.width
                \/ a.top + a.height < b.top \/ b.top + b.height < a.top)
        highlight ==
            IF index \in call.selected
            THEN << <<"save">>, <<"beginPath">>,
                    <<"rect", float(item_rect.left), float(item_rect.top),
                      float(item_rect.width), float(item_rect.height)>> >>
                 \o fill_style_commands(
                      ColorValue(IF call.focused THEN "#3875D6" ELSE "#BBB"))
                 \o << <<"fill">>, <<"restore">> >>
            ELSE <<>>
        item == paint_item(call.paint, index)
        rest == repaint_items(g, call, index + 1, end)
    IN IF index > end THEN [cmds |-> <<>>, raised |-> FALSE]
       ELSE IF ~(index < g.item_count /\ intersects_rect(item_rect, call.visible_rect))
       THEN rest
       ELSE IF item.raised
       THEN [cmds |-> highlight \o item.cmds, raised |-> TRUE]
       ELSE [cmds |-> highlight \o item.cmds \o rest.cmds, raised |-> rest.raised]

\* call: the visible rectangle, the indexes the selection holds, whether the
\* item has the focus, and what the delegate's paint_item does.
repaint_visible(self, call) ==
    /\ ~raising
    /\ Room(1)
    /\ IF ~grid.delegate
       THEN /\ UNCHANGED bufferVars
            /\ last' = Call("repaint_visible", self, save_count[self], "ok")
       ELSE LET item_size == calculate_item_size(grid.canvas_width)
                items_per_row == grid.canvas_width \div item_size
                top_visible_row == call.visible_rect.top \div item_size
                bottom_visible_row ==
                    (call.visible_rect.top + call.visible_rect.height) \div item_size
                block == saver(repaint_items(grid, call,
                                   top_visible_row * items_per_row,
                                   (bottom_visible_row + 1) * items_per_row - 1))
            IN /\ lists' = ListExtend(commands[self], block.cmds)
               /\ save_count' =
                    [save_count EXCEPT ![self] =
                        @ + Cardinality(Kinds(block.cmds, {"save"}))
                          - Cardinality(Kinds(block.cmds, {"restore"}))]
               /\ UNCHANGED commands
               /\ last' = Call("repaint_visible", self, save_count[self],
                               IF block.raised THEN "Exception" ELSE "ok")
    /\ UNCHANGED <<gradientVars, imageVars, threadVars, replayVars, layerVars,
                   scopeVars>>

\* SpecRepaint: the grid is painted once into the first drawing context, at
\* save depth 0 or inside a scope that is open, for every selection and for
\* visible rectangles over the first row, the second row, both rows and the
\* left column.
NextRepaint ==
    \/ Kinds(Commands(1), {"restore"}) = {}
         /\ \E n \in 0..MaxItems : delegate_changes(n, FALSE)
    \/ Kinds(Commands(1), {"restore"}) = {} /\ detach_delegate
    \/ Kinds(Commands(1), {"restore"}) = {}
         /\ \E w \in {40, 100, 160} : update_layout(w)
    \/ Commands(1) = <<>> /\ save(1)
    \/ Kinds(Commands(1), {"restore"}) = {} /\
       \E visible_rect \in {[top |-> 0, left |-> 0, width |-> 160, height |-> 79],
                            [top |-> 80, left |-> 0, width |-> 160, height |-> 79],
                            [top |-> 0, left |-> 0, width |-> 160, height |-> 159],
                            [top |-> 0, left |-> 0, width |-> 79, height |-> 159]},
          selected \in SUBSET (0..(MaxItems - 1)), focused \in BOOLEAN,
          paint \in [scoped : BOOLEAN, raises_at : -1..(MaxItems - 1)] :
          repaint_visible(1, [visible_rect |-> visible_rect, selected |-> selected,
                              focused |-> focused, paint |-> paint])

SpecRepaint == InitReplay /\ [][NextRepaint]_vars

\* ------------------------------------------------------------------ claims
AppendOps == {"save", "restore", "fill", "fill_style", "saver_enter", "saver_exit"}

RECURSIVE CountKind(_, _)
CountKind(cmds, kind) ==
    IF cmds = <<>> THEN 0
    ELSE (IF Head(cmds)[1] = kind THEN 1 ELSE 0) + CountKind(Tail(cmds), kind)

\* C1: copy_from(other) fails its precondition whenever this buffer or the
\* other has a non-zero save depth, and then leaves this buffer's commands and
\* save depth unchanged; with both depths 0 it succeeds and this buffer's
\* command sequence afterwards is the other buffer's, nothing of the old left.
C1_CopyFrom ==
    [][last'.op = "copy_from" =>
        IF save_count[last'.self] # 0 \/ save_count[last'.arg] # 0
        THEN /\ last'.result = "AssertionError"
             /\ CommandsNext(last'.self) = Commands(last'.self)
             /\ save_count' = save_count
        ELSE /\ last'.result = "ok"
             /\ CommandsNext(last'.self) = Commands(last'.arg)
             /\ CommandsNext(last'.self) = CommandsNext(last'.arg)
             /\ save_count' = save_count]_vars

\* C1 witness: a copy between two buffers succeeded and brought content.
C1_Witness ==
    /\ last.op = "copy_from" /\ last.result = "ok" /\ last.self # last.arg
    /\ Commands(last.self) # <<>>

\* C3 (as claimed): in every reachable state each buffer's save_count equals the
\* number of save commands minus the number of restore commands it holds.
C3_SaveCountMatchesCommands ==
    \A b \in Buffers :
        save_count[b] = CountKind(Commands(b), "save")
                          - CountKind(Commands(b), "restore")

\* C4: after clear(), whatever was appended and whatever the save depth was,
\* the buffer's command sequence is empty and its save depth is 0.
C4_Clear ==
    last.op = "clear" => Commands(last.self) = <<>> /\ save_count[last.self] = 0

\* C4 witness: clear() was called on a buffer whose save depth was negative.
C4_Witness == last.op = "clear" /\ last.arg < 0

\* C5: saver() appends one save on entry and exactly one restore on exit, on
\* normal completion and on an error alike; if the block left the save depth
\* as it was after entry, the depth after the scope is the depth before it.
C5_Saver ==
    [][/\ last'.op = "saver_enter" =>
            /\ CommandsNext(last'.self) = Commands(last'.self) \o << <<"save">> >>
            /\ save_count'[last'.self] = save_count[last'.self] + 1
       /\ last'.op = "saver_exit" =>
            /\ scopes # <<>>
            /\ scopes[Len(scopes)].self = last'.self
            /\ CommandsNext(last'.self) = Commands(last'.self) \o << <<"restore">> >>
            /\ (save_count[last'.self] = scopes[Len(scopes)].entry_depth + 1
                   => save_count'[last'.self] = scopes[Len(scopes)].entry_depth)
      ]_vars

\* C5 witness: a scope was left by an error and the depth is back at 0.
C5_Witness ==
    /\ last.op = "saver_exit" /\ last.result = "error"
    /\ save_count[last.self] = 0
    /\ Len(Commands(last.self)) >= 2
    /\ Commands(last.self)[Len(Commands(last.self))] = <<"restore">>

\* C6 (as claimed): each buffer owns its command sequence: an append to one
\* buffer, also after a successful copy_from, changes only that buffer.
C6_AppendChangesOnlyItsBuffer ==
    [][last'.op \in AppendOps =>
        \A b \in Buffers \ {last'.self} : CommandsNext(b) = Commands(b)]_vars

\* C7 (as claimed): add(other) succeeds for any save depths; this buffer's
\* sequence becomes its old sequence followed by other's commands, and other's
\* sequence and both save depths are unchanged.
C7_Add ==
    [][last'.op = "add" /\ last'.self # last'.arg =>
        /\ last'.result = "ok"
        /\ CommandsNext(last'.self) = Commands(last'.self) \o Commands(last'.arg)
        /\ CommandsNext(last'.arg) = Commands(last'.arg)
        /\ save_count' = save_count]_vars

\* In cmds every fillStyleGradient(h) directly follows gradient(h), colorStop(h)*.
GradientRunsClosed(cmds) ==
    \A i \in 1..Len(cmds) :
        cmds[i][1] = "fillStyleGradient" =>
            \E j \in 1..(i - 1) :
                /\ cmds[j][1] = "gradient"
                /\ cmds[j][2] = cmds[i][2]
                /\ \A k \in (j + 1)..(i - 1) :
                      cmds[k][1] = "colorStop" /\ cmds[k][2] = cmds[i][2]

\* C8: setting fill_style to a gradient appends the gradient's whole command
\* sequence (declaration, then its color stops so far) and then one
\* fillStyleGradient command with its handle; so in every buffer each
\* fillStyleGradient(h) is directly preceded by gradient(h), colorStop(h)*.
C8_FillStyleGradient ==
    [][/\ last'.op = "fill_style" /\ last'.arg # 0 =>
            CommandsNext(last'.self) =
                Commands(last'.self) \o gradients[last'.arg].commands
                  \o << <<"fillStyleGradient", gradients[last'.arg].command_var>> >>
       /\ \A b \in Buffers : GradientRunsClosed(CommandsNext(b))
      ]_vars

\* C8 witness: a buffer holds the fill style of a gradient with a color stop
\* after that of another gradient.
C8_Witness ==
    \E b \in Buffers : \E i, j \in 1..Len(Commands(b)) :
        /\ i < j
        /\ Commands(b)[i][1] = "fillStyleGradient"
        /\ Commands(b)[j][1] = "fillStyleGradient"
        /\ Commands(b)[i][2] # Commands(b)[j][2]
        /\ Commands(b)[j - 1][1] = "colorStop"

\* C2 (as claimed): gradients constructed concurrently never share a handle,
\* and once the constructors have returned the counter has advanced by one for
\* each of them.
C2_UniqueHandles ==
    (\A t \in Threads : pc[t] = "idle") =>
        /\ \A i, j \in 1..Len(gradients) :
              i # j => gradients[i].command_var # gradients[j].command_var
        /\ LinearGradient_next = 1 + Len(gradients)

LayerOps == {"begin_layer", "end_layer", "draw_layer"}

\* C9 (as claimed): begin_layer, end_layer and draw_layer with an empty or None
\* id do not call the storage collaborator, leave the buffer unchanged and
\* raise nothing, with or without a storage collaborator; with a non-empty id
\* (and a collaborator) each passes this buffer and the id to it exactly once.
C9_LayerCalls ==
    [][last'.op \in LayerOps =>
        IF ~Truthy(last'.arg)
        THEN /\ storage_calls' = storage_calls
             /\ bufferVars' = bufferVars
             /\ last'.result = "ok"
        ELSE storage[last'.self] # None =>
                storage_calls' = Append(storage_calls,
                    [method |-> last'.op, buffer |-> last'.self,
                     layer_id |-> last'.arg])]_vars

\* The image ids of the image commands all buffers hold, one per command.
ImageCommands ==
    UNION {{<<b, i>> : i \in {k \in 1..Len(Commands(b)) :
                                Commands(b)[k][1] = "image"}} : b \in Buffers}

\* C10: for every interleaving of draw_image calls from different threads, no
\* two image commands carry the same image id, and the ids are assigned in
\* strictly increasing order of entry into the locked section.
C10_ImageIds ==
    /\ \A p, q \in ImageCommands :
          p # q => Commands(p[1])[p[2]][5] # Commands(q[1])[q[2]][5]
    /\ \A i, j \in 1..Len(lock_entries) :
          (i < j /\ lock_entries[i].image_id # 0 /\ lock_entries[j].image_id # 0)
            => lock_entries[i].image_id < lock_entries[j].image_id

\* C10 witness: both threads have drawn images, and one waits for the lock
\* while the other is inside the locked section.
C10_Witness ==
    /\ \A b \in Buffers : Len(Commands(b)) >= 1
    /\ \E t, u \in Threads :
          /\ pc[t] = "draw_image_399"
          /\ image_id_lock = u /\ u # t
          /\ pc[u] = "draw_image_400_store"

\* The live state of to_svg: the fields that save snapshots.
Live(st) ==
    <<st.path, st.transform, st.fill_style, st.stroke_style, st.line_cap,
      st.line_join, st.line_width, st.line_dash, st.font_style, st.font_weight,
      st.font_size, st.font_family, st.text_anchor, st.text_baseline,
      st.closers>>

\* The number of scopes open after the first k commands.
Depth(cmds, k) ==
    Cardinality(Kinds(SubSeq(cmds, 1, k), {"save"}))
      - Cardinality(Kinds(SubSeq(cmds, 1, k), {"restore"}))

\* The save that the restore at place k closes.
MatchingSave(cmds, k) ==
    CHOOSE j \in 1..(k - 1) :
        /\ cmds[j][1] = "save"
        /\ Depth(cmds, j - 1) = Depth(cmds, k)
        /\ \A m \in (j + 1)..(k - 1) : Depth(cmds, m) > Depth(cmds, k)

Balanced(cmds) ==
    /\ Depth(cmds, Len(cmds)) = 0
    /\ \A k \in 1..Len(cmds) : Depth(cmds, k) >= 0

Replayed == Commands(replay.self)

\* C11: in to_svg every field of the live state has, right after a restore,
\* the value it had right before the matching save; and a replay of a balanced
\* buffer whose other commands all stand inside scopes ends with the default
\* live state and an empty snapshot stack.
C11_SaveRestoreRoundTrip ==
    replay.status # "idle" =>
      /\ \A k \in 1..(Len(replay.trace) - 1) :
           (Replayed[k][1] = "restore" /\ Depth(Replayed, k) >= 0
              /\ replay.trace[k + 1].error = None)
           => Live(replay.trace[k + 1])
                = Live(replay.trace[MatchingSave(Replayed, k)])
      /\ (/\ replay.status = "returned"
          /\ Balanced(Replayed)
          /\ \A k \in 1..Len(Replayed) :
               Replayed[k][1] \notin {"save", "restore"} => Depth(Replayed, k) > 0)
         => /\ Live(replay.st) = Live(SvgLocals)
            /\ replay.st.contexts = <<>>

\* A replay in which a restore of an inner scope undoes a change.
C11_Witness ==
    /\ replay.status = "returned"
    /\ \E k \in 1..Len(Replayed) :
         /\ Replayed[k][1] = "restore"
         /\ Depth(Replayed, k) >= 1
         /\ Live(replay.trace[k]) # Live(replay.trace[k + 1])

\* Some command before place k has one of the kinds ids.
Before(cmds, k, ids) == Kinds(SubSeq(cmds, 1, k - 1), ids) # {}

FillStyleKinds == {"fillStyle", "fillStyleGradient"}

\* What to_svg does with a paint command when the style it needs is not set.
SvgPaintsNothingWithoutStyle ==
    replay.status # "idle" =>
      \A k \in 1..(Len(replay.trace) - 1) :
        (\/ Replayed[k][1] = "fill" /\ ~Before(Replayed, k, FillStyleKinds)
         \/ Replayed[k][1] = "stroke" /\ ~Before(Replayed, k, {"strokeStyle"}))
        => replay.trace[k + 1].svg = replay.trace[k].svg

\* C12 as stated: a fill with no fill style set gives no fill element in to_svg
\* and no fill call in to_js, and a stroke with no stroke style gives nothing
\* in to_svg.
C12_Original ==
    /\ SvgPaintsNothingWithoutStyle
    /\ \A n \in 1..Len(results) :
         LET cmds == Commands(results[n].self) IN
         (/\ results[n].kind = "js"
          /\ Kinds(cmds, {"fill"}) # {}
          /\ Kinds(cmds, FillStyleKinds) = {})
         => \A m \in 1..Len(results[n].out) : results[n].out[m] # <<"ctx.fill">>

\* C12: a fill with no fill style set gives no fill element in to_svg, and a
\* stroke with no stroke style gives nothing in to_svg; to_js writes one
\* ctx.fill() call for every fill command, whether a fill style is set or not.
C12_PaintWithoutStyle ==
    /\ SvgPaintsNothingWithoutStyle
    /\ \A n \in 1..Len(results) :
         LET cmds == Commands(results[n].self) IN
         results[n].kind = "js"
         => Cardinality(Kinds(results[n].out, {"ctx.fill"}))
              = Cardinality(Kinds(cmds, {"fill"}))

\* to_svg has replayed a fill of a non-empty path that no fill style precedes,
\* and later in the same picture a fill that does have its style.
C12_Witness ==
    /\ replay.status = "returned"
    /\ \E k, m \in 1..Len(Replayed) :
         /\ Replayed[k][1] = "fill" /\ Replayed[m][1] = "fill"
         /\ ~Before(Replayed, k, FillStyleKinds)
         /\ replay.trace[k].path # <<>>
         /\ Before(Replayed, m, FillStyleKinds)
         /\ replay.trace[m + 1].svg # replay.trace[m].svg

PathKinds == {"beginPath", "moveTo", "lineTo", "closePath", "rect"}

\* The place of the last begin-path before place k, or 0.
LastBegin(cmds, k) ==
    IF Before(cmds, k, {"beginPath"})
    THEN CHOOSE j \in 1..(k - 1) :
           /\ cmds[j][1] = "beginPath"
           /\ \A m \in (j + 1)..(k - 1) : cmds[m][1] # "beginPath"
    ELSE 0

\* The tokens of the move-to, line-to and close-path commands at the places
\* from..to of cmds, in their order.
RECURSIVE Tokens(_, _, _)
Tokens(cmds, from, to) ==
    IF from > to THEN <<>>
    ELSE (CASE cmds[from][1] = "moveTo" -> << <<"M", cmds[from][2], cmds[from][3]>> >>
            [] cmds[from][1] = "lineTo" -> << <<"L", cmds[from][2], cmds[from][3]>> >>
            [] cmds[from][1] = "closePath" -> << <<"Z">> >>
            [] OTHER -> <<>>)
         \o Tokens(cmds, from + 1, to)

\* C13: in to_svg, with a stroke style set, a stroke command writes exactly
\* one path element, whose path data are the tokens of the move-to, line-to and
\* close-path commands since the last begin-path, in their order; the stroke
\* leaves the path as it is.
C13_StrokePath ==
    replay.status # "idle" =>
      \A k \in 1..(Len(replay.trace) - 1) :
        (/\ Replayed[k][1] = "stroke"
         /\ Before(Replayed, k, {"strokeStyle"})
         /\ \A m \in (LastBegin(Replayed, k) + 1)..(k - 1) : Replayed[m][1] # "rect")
        => /\ Len(replay.trace[k + 1].svg) = Len(replay.trace[k].svg) + 1
           /\ SubSeq(replay.trace[k + 1].svg, 1, Len(replay.trace[k].svg))
                = replay.trace[k].svg
           /\ LET element == replay.trace[k + 1].svg[Len(replay.trace[k + 1].svg)]
              IN /\ element[1] = "path"
                 /\ element[2] = Tokens(Replayed, LastBegin(Replayed, k) + 1, k - 1)
                 /\ element[4] = "#000"
           /\ replay.trace[k + 1].path = replay.trace[k].path

\* Two strokes of the same non-empty path, the second right after the first.
C13_Witness ==
    /\ replay.status = "returned"
    /\ \E k \in 2..Len(Replayed) :
         /\ Replayed[k - 1][1] = "stroke" /\ Replayed[k][1] = "stroke"
         /\ replay.trace[k].path # <<>>
         /\ Len(replay.trace[k + 1].svg) = 2

\* The corners of rect(10, 20, 30, 40), then the close.
Corners ==
    << <<"M", 10, 20>>, <<"L", 40, 20>>, <<"L", 40, 60>>, <<"L", 10, 60>>, <<"Z">> >>

\* The rect is the only path command of the picture.
RectAlone(cmds) ==
    /\ Cardinality(Kinds(cmds, PathKinds)) = 1
    /\ Kinds(cmds, {"rect"}) # {}

\* In to_svg a rect that stands alone gives the four corners and the close as
\* the path data of every fill element written after it.
SvgRectCorners ==
    (replay.status # "idle" /\ RectAlone(Replayed)) =>
      \A k \in 1..(Len(replay.trace) - 1) :
        /\ Replayed[k][1] = "rect" => replay.trace[k + 1].path = Corners
        /\ (/\ Replayed[k][1] = "fill"
            /\ Before(Replayed, k, {"rect"})
            /\ Before(Replayed, k, FillStyleKinds))
           => replay.trace[k + 1].svg
                = Append(replay.trace[k].svg,
                         <<"path", Corners, "#FFF", "transparent", <<>> >>)

\* C14 as stated: a rect alone gives path data of the four corners and the
\* close, in that order, in the output of to_svg and in the output of to_js.
C14_Original ==
    /\ SvgRectCorners
    /\ \A n \in 1..Len(results) :
         (results[n].kind = "js" /\ RectAlone(Commands(results[n].self)))
         => \E m \in 1..Len(results[n].out) :
              /\ m + 4 <= Len(results[n].out)
              /\ \A d \in 1..5 : Tail(results[n].out[m + d - 1]) = Tail(Corners[d])

\* C14: a rect alone gives path data of the four corners and the close, in
\* that order, in the fill output of to_svg; to_js writes the one call
\* ctx.rect(x, y, w, h) with the arguments of the command.
C14_RectCorners ==
    /\ SvgRectCorners
    /\ \A n \in 1..Len(results) :
         (results[n].kind = "js" /\ RectAlone(Commands(results[n].self)))
         => /\ Cardinality(Kinds(results[n].out, {"ctx.rect"})) = 1
            /\ \A m \in Kinds(results[n].out, {"ctx.rect"}) :
                 results[n].out[m] = <<"ctx.rect", 10, 20, 30, 40>>
            /\ Kinds(results[n].out, {"ctx.moveTo", "ctx.lineTo", "ctx.closePath"}) = {}

\* to_svg has written the fill element of a rect that stands alone.
C14_Witness ==
    /\ replay.status = "returned"
    /\ RectAlone(Replayed)
    /\ \E k \in 1..Len(replay.st.svg) :
         replay.st.svg[k] = <<"path", Corners, "#FFF", "transparent", <<>> >>

\* The builder methods that C15 says append one command.
OneCommandOps ==
    {"save", "restore", "begin_path", "close_path", "clip_rect", "translate",
     "scale", "rotate", "move_to", "line_to", "rect", "arc", "arc_to",
     "draw_image", "stroke", "sleep", "mark_latency", "fill", "fill_text",
     "fill_style", "font", "text_align", "text_baseline", "stroke_style",
     "line_width", "line_dash", "line_cap", "line_join", "statistics"}

\* The call that this step made added n commands to the list of its buffer,
\* changed the save depth of its buffer by d, and left every other list, the
\* other buffer and the rest of the drawing contexts' state as they were.
Appended(n, d) ==
    LET self == last'.self  r == commands[last'.self] IN
    /\ Len(lists'[r]) = Len(lists[r]) + n
    /\ SubSeq(lists'[r], 1, Len(lists[r])) = lists[r]
    /\ \A o \in Refs \ {r} : lists'[o] = lists[o]
    /\ save_count' = [save_count EXCEPT ![self] = @ + d]
    /\ UNCHANGED <<commands, gradientVars, threadVars, replayVars, layerVars,
                   scopeVars>>

SaveDepthChange ==
    CASE last'.op = "save" -> 1 [] last'.op = "restore" -> 0 - 1 [] OTHER -> 0

RoundRectKinds == <<"moveTo", "arcTo", "arcTo", "arcTo", "arcTo", "closePath">>

RoundRectAppendsSix ==
    (last'.op = "round_rect" /\ last'.result = "ok")
    => /\ Appended(6, 0)
       /\ UNCHANGED imageVars
       /\ \A k \in 1..6 :
            lists'[commands[1]][Len(lists[commands[1]]) + k][1] = RoundRectKinds[k]

\* C15 as stated: every builder method other than round_rect and the gradient
\* form of fill_style appends exactly one command and changes nothing else
\* but, for save and restore, the save depth; round_rect appends six commands,
\* one moveTo, four arcTo and one closePath.
C15_Original ==
    [][/\ (last'.op \in OneCommandOps /\ last'.result = "ok")
          => Appended(1, SaveDepthChange) /\ UNCHANGED imageVars
       /\ RoundRectAppendsSix]_vars

\* C15: as stated, for every builder method but draw_image; draw_image appends
\* exactly one command and also moves the image id counter of the class on by
\* one, the command carrying the new value.
C15_BuildersAppendOne ==
    [][/\ (last'.op \in OneCommandOps \ {"draw_image"} /\ last'.result = "ok")
          => Appended(1, SaveDepthChange) /\ UNCHANGED imageVars
       /\ (last'.op = "draw_image" /\ last'.result = "ok")
          => /\ Appended(1, 0)
             /\ image_id' = image_id + 1
             /\ image_id_lock' = image_id_lock
             /\ lists'[commands[1]][Len(lists'[commands[1]])][5] = image_id'
       /\ RoundRectAppendsSix]_vars

\* round_rect has added its six commands to a buffer that held one already,
\* the one that draw_image appended.
C15_Witness ==
    /\ last.op = "round_rect"
    /\ Len(Commands(1)) = 7
    /\ Commands(1)[1][1] = "image"
    /\ Commands(1)[7][1] = "closePath"

\* The text anchor that C16 gives for a text-align value.
AnchorOf(a) ==
    CASE a = "start" -> "start" [] a = "end" -> "end" [] a = "left" -> "start"
      [] a = "center" -> "middle" [] a = "right" -> "end" [] OTHER -> "start"

Words(a) == SelectSeq(split(a), LAMBDA t : t # <<>>)

\* A token that ends in px after a positive integer.
IsSize(t) ==
    /\ endswith_px(t)
    /\ Len(t) > 2
    /\ \A k \in 1..(Len(t) - 2) : t[k] \in DOMAIN Digits
    /\ \E k \in 1..(Len(t) - 2) : t[k] # "0"

IsFamily(t) ==
    /\ t # <<"i", "t", "a", "l", "i", "c">>
    /\ t # <<"b", "o", "l", "d">>
    /\ ~IsSize(t)

\* The last of the tokens of ws that satisfy Test, or <<>>.
LastWord(ws, Test(_)) ==
    IF \E k \in 1..Len(ws) : Test(ws[k])
    THEN ws[CHOOSE k \in 1..Len(ws) :
              Test(ws[k]) /\ \A m \in (k + 1)..Len(ws) : ~Test(ws[m])]
    ELSE <<>>

\* C17: in to_svg a font command first unsets the four font fields and then
\* reads its tokens from left to right: italic sets the style, bold the
\* weight, a token ending in px after a positive integer the size, any other
\* token the family, the last one winning; "italic bold 14px Arial" gives
\* italic, bold, 14 and Arial.
C17_FontDecomposition ==
    replay.status # "idle" =>
      \A k \in 1..Len(Replayed) :
        Replayed[k][1] = "font" =>
          LET ws == Words(Replayed[k][2])
              size == LastWord(ws, IsSize)
          IN /\ k < Len(replay.trace)
             /\ replay.trace[k + 1].error = None
             /\ replay.trace[k + 1].font_style
                  = (IF \E m \in 1..Len(ws) : ws[m] = <<"i", "t", "a", "l", "i", "c">>
                     THEN "italic" ELSE None)
             /\ replay.trace[k + 1].font_weight
                  = (IF \E m \in 1..Len(ws) : ws[m] = <<"b", "o", "l", "d">>
                     THEN "bold" ELSE None)
             /\ replay.trace[k + 1].font_size
                  = (IF size = <<>> THEN <<>>
                     ELSE <<DecimalValue(SubSeq(size, 1, Len(size) - 2))>>)
             /\ replay.trace[k + 1].font_family = LastWord(ws, IsFamily)

\* C18: the replay of a buffer whose save and restore commands are not
\* balanced, by to_js or by to_svg, does not fail: it returns its output.
C18_UnbalancedReplayReturns ==
    \A n \in 1..Len(results) :
      ~Balanced(Commands(results[n].self)) => results[n].error = None

\* C19: to_js and to_svg leave the command sequence and the save depth of the
\* buffer as they are, and two replays of the same buffer by the same
\* interpreter give the same result: nothing of one replay, the clip counter
\* included, is seen by the next.
C19_ReplayIsPure ==
    [][last'.op \in {"to_js", "to_svg"}
       => /\ UNCHANGED bufferVars
          /\ \A n, m \in 1..Len(results') :
               (results'[n].kind = results'[m].kind
                  /\ results'[n].self = results'[m].self)
               => results'[n] = results'[m]]_vars

\* to_svg has replayed twice a buffer that holds a clip.
C19_Witness ==
    /\ Len(results) = 2
    /\ results[1].kind = "svg" /\ results[2].kind = "svg"
    /\ results[2].error = None
    /\ Kinds(Commands(1), {"clip"}) # {}
    /\ replay.st.next_clip_id = 1 + Cardinality(Kinds(Commands(1), {"clip"}))

\* The places before k of the colour stops of the gradient with handle h.
StopsOf(cmds, k, h) ==
    {j \in 1..(k - 1) : cmds[j][1] = "colorStop" /\ cmds[j][2] = h}

\* C20: in to_svg the definition that a fill-style-gradient command writes to
\* defs holds the colour stops of its own gradient and no others: a gradient
\* command starts a new list of stops.
C20_GradientOwnStops ==
    replay.status # "idle" =>
      \A k \in 1..(Len(replay.trace) - 1) :
        Replayed[k][1] = "fillStyleGradient" =>
          /\ replay.trace[k + 1].error = None
          /\ Len(replay.trace[k + 1].defs) = Len(replay.trace[k].defs) + 1
          /\ LET definition == replay.trace[k + 1].defs[Len(replay.trace[k + 1].defs)]
             IN Len(definition[3])
                  = Cardinality(StopsOf(Replayed, k, Replayed[k][2]))

\* The clips that stand directly in the scope opened by the save at place s,
\* before place k.
ClipsIn(cmds, s, k) ==
    {j \in (s + 1)..(k - 1) :
        cmds[j][1] = "clip" /\ Depth(cmds, j) = Depth(cmds, s)}

\* The group closing tags that the k-th command of the replay added to the
\* body.
ClosersAdded(k) ==
    CountKind(replay.trace[k + 1].svg, "/g") - CountKind(replay.trace[k].svg, "/g")

\* C21: in to_svg the closing tag of the group of a clip that stands in a
\* save scope reaches the body exactly once, at the restore that matches the
\* innermost save around the clip: that restore adds, at the end of the body,
\* one closing tag for every clip opened directly in its scope and none for
\* the clips of the scopes around it, whose closing tags are still pending
\* after it in the order of their clips; no other command adds a closing tag.
C21_ClosersAtMatchingRestore ==
    replay.status # "idle" =>
      \A k \in 1..(Len(replay.trace) - 1) :
        replay.trace[k + 1].error = None =>
          IF Replayed[k][1] = "restore"
          THEN LET s == MatchingSave(Replayed, k)
                   n == Cardinality(ClipsIn(Replayed, s, k))
                   svg == replay.trace[k + 1].svg
               IN /\ ClosersAdded(k) = n
                  /\ Len(svg) = Len(replay.trace[k].svg) + n
                  /\ \A m \in (Len(svg) - n + 1)..Len(svg) : svg[m] = <<"/g">>
                  /\ replay.trace[k + 1].closers = replay.trace[s].closers
                  /\ Len(replay.trace[k + 1].closers)
                       = Cardinality({j \in 1..(s - 1) :
                            /\ Replayed[j][1] = "clip"
                            /\ Depth(Replayed, j) = Depth(Replayed, k)
                            /\ \A m \in j..(s - 1) :
                                 Depth(Replayed, m) >= Depth(Replayed, k)})
          ELSE ClosersAdded(k) = 0

\* The restore of an inner scope has closed the group of the inner clip and
\* left the closing tag of the outer scope's clip pending.
C21_Witness ==
    /\ replay.status = "returned"
    /\ \E k \in 1..Len(Replayed) :
         /\ Replayed[k][1] = "restore"
         /\ Depth(Replayed, k) >= 1
         /\ ClosersAdded(k) = 1
         /\ replay.trace[k + 1].closers = << <<"/g">> >>

\* C22: the body that to_svg returns for a buffer with balanced save and
\* restore commands holds as many group closing tags as the buffer holds clip
\* commands, wherever the clips stand, outside every save scope included.
C22_GroupsClosed ==
    \A n \in 1..Len(results) :
      (/\ results[n].kind = "svg"
       /\ results[n].error = None
       /\ Balanced(Commands(results[n].self)))
      => CountKind(results[n].out[5], "/g")
           = Cardinality(Kinds(Commands(results[n].self), {"clip"}))

\* The clip-path definitions among the definitions defs, in order.
ClipPaths(defs) == SelectSeq(defs, LAMBDA d : d[1] = "clipPath")

\* C23: within one replay by to_svg the k-th clip command gets the identifier
\* clip<k>, counting from 1, in its definition and in the group it opens; the
\* clip counter never decreases, a restore leaves it as it is, and no two
\* clip-path definitions in defs have the same identifier.
C23_ClipIds ==
    replay.status # "idle" =>
      \A k \in 1..(Len(replay.trace) - 1) :
        LET before == replay.trace[k]
            after == replay.trace[k + 1]
            paths == ClipPaths(after.defs)
            nth == Cardinality(Kinds(SubSeq(Replayed, 1, k), {"clip"}))
        IN /\ after.next_clip_id >= before.next_clip_id
           /\ Replayed[k][1] = "restore"
                => after.next_clip_id = before.next_clip_id
           /\ Replayed[k][1] = "clip"
                => /\ paths[Len(paths)][2] = <<"clip", nth>>
                   /\ after.svg[Len(after.svg)] = <<"g", <<"clip", nth>> >>
           /\ Len(paths) = nth
           /\ \A i, j \in 1..Len(paths) : paths[i][2] = paths[j][2] => i = j

\* A clip after the restore of a scope that held a clip has got the next
\* identifier.
C23_Witness ==
    /\ replay.status = "returned"
    /\ \E k \in 1..Len(Replayed) :
         /\ Replayed[k][1] = "clip"
         /\ Before(Replayed, k, {"restore"})
         /\ replay.trace[k].closers = <<>>
         /\ replay.trace[k + 1].next_clip_id = 3

TransformKinds == {"translate", "scale", "rotate"}

\* The tokens of the transform commands among the first k commands whose
\* scope is still open after the k-th command, in command order.  The token of
\* a transform command is its kind with its arguments.
RECURSIVE OpenTransforms(_, _, _)
OpenTransforms(cmds, j, k) ==
    IF j = 0 THEN <<>>
    ELSE OpenTransforms(cmds, j - 1, k)
           \o (IF /\ cmds[j][1] \in TransformKinds
                  /\ \A m \in j..k : Depth(cmds, m) >= Depth(cmds, j)
               THEN <<cmds[j]>> ELSE <<>>)

\* C24: in to_svg translate, scale and rotate each add one token at the end
\* of the live transform list and leave the tokens before it as they are; a
\* restore leaves exactly the list of its matching save, a prefix of the list
\* it found; no other command changes the list.  So after every command the
\* live list is, in command order, the tokens of the transform commands of the
\* scopes that are open, and the snapshots on the stack are not changed by a
\* transform command.
C24_TransformAppendOnly ==
    replay.status # "idle" =>
      \A k \in 1..(Len(replay.trace) - 1) :
        LET before == replay.trace[k]
            after == replay.trace[k + 1]
            c == Replayed[k]
        IN after.error = None =>
             /\ c[1] \in TransformKinds =>
                  /\ after.transform = Append(before.transform, c)
                  /\ after.contexts = before.contexts
             /\ c[1] = "restore" =>
                  LET saved == replay.trace[MatchingSave(Replayed, k)].transform
                  IN /\ after.transform = saved
                     /\ Len(saved) <= Len(before.transform)
                     /\ saved = SubSeq(before.transform, 1, Len(saved))
                     /\ after.contexts
                          = SubSeq(before.contexts, 1, Len(before.contexts) - 1)
             /\ c[1] = "save" =>
                  /\ after.transform = before.transform
                  /\ Len(after.contexts) = Len(before.contexts) + 1
                  /\ SubSeq(after.contexts, 1, Len(before.contexts))
                       = before.contexts
                  /\ after.contexts[Len(after.contexts)].transform
                       = before.transform
             /\ c[1] \notin TransformKinds \cup {"save", "restore"} =>
                  after.transform = before.transform
             /\ after.transform = OpenTransforms(Replayed, k, k)

\* A restore has removed the token of the inner scope and kept the token
\* of the scope around it, and a later transform has been appended to it.
C24_Witness ==
    /\ replay.status = "returned"
    /\ \E k \in 1..Len(Replayed) :
         /\ Replayed[k][1] = "restore"
         /\ Len(replay.trace[k].transform) = 2
         /\ Len(replay.trace[k + 1].transform) = 1
         /\ Len(replay.trace[k + 1].contexts) = 1
         /\ Len(replay.st.transform) = 2

\* C25: the script that to_js returns for a command sequence is, for every
\* way of cutting the sequence into a front part A and a rest B, the script of
\* A followed by the script of B; so it is the scripts of its single
\* commands, one after the other.
C25_ToJsStateless ==
    \A n \in 1..Len(results) :
      results[n].kind = "js" =>
        LET cmds == Commands(results[n].self) IN
        /\ results[n].error = None
        /\ \A i \in 0..Len(cmds) :
             results[n].out
               = to_js_loop(SubSeq(cmds, 1, i))
                   \o to_js_loop(SubSeq(cmds, i + 1, Len(cmds)))

\* to_js has replayed a buffer in which a fill follows the setting of its
\* style and another fill stands before it.
C25_Witness ==
    /\ results # <<>>
    /\ results[1].kind = "js"
    /\ \E i, j, k \in 1..Len(Commands(1)) :
         /\ i < j /\ j < k
         /\ Commands(1)[i][1] = "fill"
         /\ Commands(1)[j][1] = "fillStyle"
         /\ Commands(1)[k][1] = "fill"
    /\ Len(results[1].out) = Len(Commands(1))

\* The kinds of the instrumentation commands: sleep, and the two kinds for
\* which neither interpreter has a branch.
InstrumentationKinds == {"sleep", "latency", "statistics"}

Drawn(cmds) == SelectSeq(cmds, LAMBDA c : c[1] \notin InstrumentationKinds)

\* C26: to_js and to_svg skip the sleep, latency and statistics commands and
\* the commands of a kind they do not know: the replay of a buffer does not
\* fail on them, and what it returns is what the replay of the buffer without
\* these commands returns.
C26_InstrumentationSkipped ==
    \A n \in 1..Len(results) :
      LET cmds == Commands(results[n].self)
          trace == to_svg_loop(Drawn(cmds), <<SvgLocals>>)
          st == trace[Len(trace)]
      IN /\ results[n].error = None
         /\ results[n].kind = "js" => results[n].out = to_js_loop(Drawn(cmds))
         /\ results[n].kind = "svg" =>
              /\ st.error = None
              /\ results[n].out
                   = to_svg_result(st, results[n].out[2], results[n].out[3])

\* Both interpreters have replayed buffers that hold an instrumentation
\* command between commands that draw.
C26_Witness ==
    /\ results # <<>>
    /\ results[1].out # <<>>
    /\ \E i, j, k \in 1..Len(Commands(1)) :
         /\ i < j /\ j < k
         /\ Commands(1)[i][1] = "fillStyle"
         /\ Commands(1)[j][1] \in {"latency", "statistics"}
         /\ Commands(1)[k][1] = "fill"
    /\ Kinds(Commands(1), {"sleep"}) # {}

IsPrefix(s, t) == Len(s) <= Len(t) /\ s = SubSeq(t, 1, Len(s))

\* C27: every operation other than clear and copy_from leaves, for every
\* buffer, the command sequence it found as the front part of the sequence
\* it leaves: commands are added at the end and none is changed, moved or
\* removed.
C27_AppendOnlyLog ==
    [][last'.op \notin {"clear", "copy_from"}
       => \A b \in Buffers : IsPrefix(Commands(b), CommandsNext(b))]_vars

\* An image has been appended to a list that both buffers hold and that
\* held a command before.
C27_Witness ==
    /\ commands[1] = commands[2]
    /\ last.op = "draw_image" /\ last.result = "ok"
    /\ Len(Commands(2)) = 2
    /\ Commands(2)[1][1] = "save"
    /\ Commands(2)[2][1] = "image"

\* The mouse state of the grid as __init__ and mouse_released leave it.
Idle(g) ==
    /\ ~g.mouse_pressed
    /\ g.mouse_index = Nothing
    /\ g.mouse_position = Nothing
    /\ ~g.mouse_dragging

\* The calls among g.calls that change the selection.
SelectionCalls(g) ==
    SelectSeq(g.calls, LAMBDA c : c[1] \in {"selection.set", "selection.extend",
                                            "selection.toggle"})

Held(modifiers) == modifiers.shift \/ modifiers.control

\* What holds of every step of the grid whatever the state: a step arms the
\* item only if it is a press without shift and control on a valid item of an
\* attached delegate; a press with shift or control leaves the pressed flag as
\* it is; the selection is changed only by a step that found the item armed;
\* a release leaves the mouse state idle.
MouseSteps ==
    /\ (grid'.mouse_pressed /\ ~grid.mouse_pressed)
         => /\ last'.op = "mouse_pressed"
            /\ ~Held(last'.arg)
            /\ grid.delegate
            /\ grid'.mouse_index # Nothing
            /\ grid'.mouse_index[1] \in 0..(grid.item_count - 1)
    /\ (last'.op = "mouse_pressed" /\ Held(last'.arg))
         => grid'.mouse_pressed = grid.mouse_pressed
    /\ SelectionCalls(grid') # <<>>
         => /\ grid.mouse_pressed
            /\ last'.op \in {"mouse_released", "mouse_position_changed"}
    /\ last'.op = "mouse_released" => Idle(grid')

\* C28: a press arms the item only when it is on a valid item and neither
\* shift nor control is held; mouse_released changes the selection only when
\* the item is armed and always leaves the pressed flag, the mouse index, the
\* mouse position and the dragging flag reset; so a press with shift or
\* control held that is followed by a release leaves the selection unchanged.
C28_MouseStateMachine ==
    [][/\ MouseSteps
       /\ (/\ last.op = "mouse_pressed" /\ Held(last.arg)
           /\ last'.op = "mouse_released")
          => SelectionCalls(grid') = <<>>]_vars

\* What the handlers do keep: the steps are as C28 says, and a press with
\* shift or control held on an item that no earlier press has left armed,
\* followed by a release, leaves the selection unchanged.
MouseStateMachineUnarmed ==
    [][/\ MouseSteps
       /\ (/\ last.op = "mouse_pressed" /\ Held(last.arg)
           /\ ~grid.mouse_pressed
           /\ last'.op = "mouse_released")
          => SelectionCalls(grid') = <<>>]_vars

\* The calls of the delegate's on_drag_started among g.calls.
DragCalls(g) == SelectSeq(g.calls, LAMBDA c : c[1] = "on_drag_started")

\* C29: on_drag_started is invoked at most once after a call of mouse_pressed,
\* and only by a position change that finds the item armed and not dragging,
\* at a place more than 8 units from the place of the press; the same handler
\* then performs the release, so that the mouse state is idle after it and a
\* later position change, which finds the item not armed, starts no drag and
\* leaves the mouse state as it is.
C29_DragStartsOnce ==
    [][/\ grid'.drags <= 1
       /\ DragCalls(grid') # <<>>
            => /\ last'.op = "mouse_position_changed"
               /\ Len(DragCalls(grid')) = 1
               /\ grid.mouse_pressed /\ ~grid.mouse_dragging
               /\ grid.delegate /\ grid.on_drag_started
               /\ LET call == DragCalls(grid')[1]
                      dx == call[3] - grid.mouse_position[1]
                      dy == call[4] - grid.mouse_position[2]
                  IN /\ dx * dx + dy * dy > 8 * 8
                     /\ call[2] = grid.mouse_index
               /\ Idle(grid')
       /\ (last'.op = "mouse_position_changed" /\ ~grid.mouse_pressed)
            => /\ DragCalls(grid') = <<>>
               /\ grid'.mouse_pressed = grid.mouse_pressed
               /\ grid'.mouse_index = grid.mouse_index
               /\ grid'.mouse_position = grid.mouse_position
               /\ grid'.mouse_dragging = grid.mouse_dragging]_vars

\* A move from (10, 10) to (16, 16), which is more than 8 away though less
\* than 8 along each axis, has started the one drag of the gesture, and the
\* release that followed it in the handler has set the selection.
C29_Witness ==
    /\ last.op = "mouse_position_changed"
    /\ grid.drags = 1
    /\ DragCalls(grid) # <<>>
    /\ DragCalls(grid)[1][3] = 16 /\ DragCalls(grid)[1][4] = 16
    /\ DragCalls(grid)[1][2] = <<0>>
    /\ SelectionCalls(grid) = << <<"selection.set", 0>> >>
    /\ Idle(grid)

\* C30: _repaint_visible leaves the save depth of the drawing context as it
\* found it, for every number of items, selection and visible rectangle, when
\* the delegate's paint_item leaves the depth as it found it; what it appends
\* is balanced, and with a delegate it starts with the outer save and ends
\* with the restore that matches it, also when paint_item raises.
C30_RepaintBalanced ==
    [][last'.op = "repaint_visible"
       => LET appended == SubSeq(CommandsNext(1), Len(Commands(1)) + 1,
                                 Len(CommandsNext(1)))
          IN /\ save_count' = save_count
             /\ Commands(1) = SubSeq(CommandsNext(1), 1, Len(Commands(1)))
             /\ Balanced(appended)
             /\ grid.delegate
                  => /\ Len(appended) >= 2
                     /\ appended[1] = <<"save">>
                     /\ appended[Len(appended)] = <<"restore">>
                     /\ MatchingSave(appended, Len(appended)) = 1]_vars

\* A repaint inside an open scope has painted a selected item and has ended
\* by the exception of paint_item for a later item.
C30_Witness ==
    /\ last.op = "repaint_visible"
    /\ last.result = "Exception"
    /\ last.arg = 1
    /\ save_count[1] = 1
    /\ Cardinality(Kinds(Commands(1), {"fillStyle"})) >= 1
    /\ Cardinality(Kinds(Commands(1), {"fill"})) >= 2

====
